---- MODULE Spec2Model ----
(***************************************************************************)
(* Verification model of liebesu/google_ssr_actions: the aggregation       *)
(* pipeline (URL normaliser, source state tracker, traffic extraction,     *)
(* dedup / classification / delta) and the SerpAPI key quota scheduler.    *)
(* Each component has its own specification over the shared variables;     *)
(* the variables of the other components stay at their initial value.      *)
(***************************************************************************)
EXTENDS Integers, Sequences, FiniteSets, TLC

VARIABLES
    rate_state,     \* aggregator_cli.py main(): rate_state, url -> info dict (or NoInfo)
    now_ts,         \* the now_ts handed to mark_rate_limited / should_skip_due_to_backoff (seconds)
    rs_now,         \* _calculate_next_reset_date: datetime.now() (calendar date)
    rs_reg,         \* the registration date recorded for the key, or NoRegistration
    rs_index,       \* key_index
    rs_pc,          \* which of the three implementations have been evaluated
    rs_mgr,         \* result of EnhancedSerpAPIKeyManager._calculate_next_reset_date
    rs_checker,     \* result of SubscriptionChecker._calculate_next_reset_date
    rs_test,        \* result of test_reset_time.calculate_next_reset_date
    km_now,         \* key manager: datetime.now() as [day, sec] since StartDate 00:00:00
    km_live,        \* what https://serpapi.com/account answers for each key right now
    km_regs,        \* api_key_registration_dates.json: key -> date or NoRegistration
    key_quotas,     \* self.key_quotas, in dict insertion order
    last_quota_check, \* self.last_quota_check, NoCheck before the first live check
    km_selected,    \* outcome of the last get_optimal_key call
    km_check,       \* the last unforced check_all_quotas: seconds since the check before it, and whether it queried
    fb_keys,        \* self.api_keys of the manager that runs try_key_with_fallback
    fb_pc,          \* try_key_with_fallback: "ready", "loop" or "done"
    fb_list,        \* key_list
    fb_tried,       \* the calls of operation_func so far: key and outcome
    fb_result,      \* what try_key_with_fallback returned
    tr_in,          \* traffic figures the regular expressions matched in a body
    tr_pc,          \* which traffic engines have run on tr_in
    tr_agg,         \* info returned by aggregator_cli.extract_traffic_info_from_text
    tr_chk,         \* traffic_info after SubscriptionChecker._calculate_missing_traffic_info
    history_file,   \* data/history_urls.json
    live_file,      \* data/live_urls.json (--live-out)
    rate_file,      \* data/rate_limit.json
    run_pc,         \* the loop of main() that executes, "idle" between runs
    run_idx,        \* position of that loop in its list (from 1)
    run_count,      \* runs of main() that have ended
    args,           \* the command line: dedup, max (0: not given), set at its first use
    prev_live_urls, \* main(): prev_live_urls
    candidates,     \* main(): candidates
    alive_urls,     \* main(): alive_urls
    all_nodes,      \* main(): all_nodes (first pass)
    url_meta,       \* main(): url_meta, url and availability of each entry
    refined_alive_urls, \* main(): refined_alive_urls
    verified_nodes, \* main(): verified_nodes, written to sub/all.txt
    verified_region_to_nodes, \* main(): region slices, written to regions/*.txt
    verified_proto_to_nodes,  \* main(): protocol slices, written to proto/*.txt
    sources_new,    \* health.json: sources_new
    sources_removed, \* health.json: sources_removed
    run_keys, \* the credential situation the last start of main() met
    sound_nodes, \* the node lines that a response of the verified loop served while not exhausted
    last_req, \* the HTTP request the last step issued, NoRequest when it issued none
    net_failed, \* the urls whose request failed with a network error in this run
    good_nodes, \* main(): good_nodes, written to sub/good.txt
    rt_config, \* the RetryConfig handed to retry_with_backoff
    rt_calls, \* wrapper: how often func has been called
    rt_slept, \* the delays handed to time.sleep, in call order (milliseconds)
    rt_pc, \* wrapper: "calling", "returned" or "raised"
    rt_ended, \* the calls of wrapper that have ended
    rg_config, \* scraper: self.config["regions"]: priority_regions and use_priority_only
    rg_file, \* region_state.json: current_region_index
    rg_index, \* self.current_region_index of the running scraper
    rg_searched, \* the regions of the latest scraping runs, oldest first, with what the search gave
    rg_runs, \* scraping runs so far
    hs_file, \* data/history_urls.json as main() reads and writes it: a set of URL texts
    hs_start, \* the history file as the latest run found it
    hs_runs, \* runs of main() so far
    mk_pc, \* the loop of main() that requests the sources: "idle", "validate", "fetch", "github" or "done"
    mk_idx, \* position of that loop in its list
    mk_alive, \* alive_urls of the run
    mk_gh, \* gh_urls of the run: the sources discovered on GitHub
    mk_before, \* the hits of every source when the run loaded rate_limit.json
    failed_keys, \* self.failed_keys of the key manager
    sr_key, \* the key that get_optimal_key gave the latest search ("unset" before the first, "None" for none)
    sr_status, \* HTTP status of the latest search (0: no request)
    sr_count, \* calls of search_google_with_serpapi so far
    ks_keys_file, \* data/serpapi_keys.json: the keys it lists
    ks_dates_file, \* api_key_registration_dates.json: the keys it has a date for
    ks_req, \* the request each server thread is handling and how far it is
    ks_last, \* per key, the latest request on it that was answered with success
    ks_overlap, \* a request was accepted while another was being handled
    ks_begun, \* requests accepted so far
    notified_urls, \* self.notified_urls: the normalized URLs whose notification was sent
    nt_delivered, \* per normalized URL and message (1 link card, 2 reminder, 3 analysis), how often the chat received it
    nt_ops, \* check and notify operations so far
    da_pc, \* where _dual_analyze_subscription stands: "idle", "raw", "clash", "convert" or "returned"
    da_raw, \* original_decoded_content
    da_base64, \* total_nodes of base64_result
    da_clash, \* clash_content
    da_clash_result, \* clash_result: {} or a result with its total_nodes
    da_tried, \* conversion services requested by this analysis
    da_result, \* the returned analysis: analysis_method and total_nodes
    da_runs, \* analyses started so far
    nz_raw,         \* a raw candidate string
    nz_core,        \* nz_raw without disallowed parameters and trailing text
    nz_parts,       \* the parts nz_raw was made of
    nz_done,        \* which of the normalisations below have been computed
    nz_out,         \* normalize_subscribe_url(nz_raw)
    nz_again,       \* normalize_subscribe_url(nz_out)
    nz_core_out     \* normalize_subscribe_url(nz_core)

rateVars == <<rate_state, now_ts>>
resetVars == <<rs_now, rs_reg, rs_index, rs_pc, rs_mgr, rs_checker, rs_test>>

keyVars == <<km_now, km_live, km_regs, key_quotas, last_quota_check, km_selected,
            km_check>>
fbVars == <<fb_keys, fb_pc, fb_list, fb_tried, fb_result>>
trafficVars == <<tr_in, tr_pc, tr_agg, tr_chk>>
aggVars == <<history_file, live_file, rate_file, run_pc, run_idx, run_count,
           args, prev_live_urls, candidates, alive_urls, all_nodes, url_meta,
           refined_alive_urls, verified_nodes, verified_region_to_nodes,
           verified_proto_to_nodes, sources_new, sources_removed,
           good_nodes,
           net_failed,
           last_req,
           sound_nodes,
           run_keys>>
retryVars == <<rt_config, rt_calls, rt_slept, rt_pc, rt_ended>>
regionVars == <<rg_config, rg_file, rg_index, rg_searched, rg_runs>>
historyVars == <<hs_file, hs_start, hs_runs>>
marksVars == <<mk_pc, mk_idx, mk_alive, mk_gh, mk_before>>
searchVars == <<failed_keys, sr_key, sr_status, sr_count>>
storeVars == <<ks_keys_file, ks_dates_file, ks_req, ks_last, ks_overlap, ks_begun>>
alertVars == <<notified_urls, nt_delivered, nt_ops>>
dualVars == <<da_pc, da_raw, da_base64, da_clash, da_clash_result, da_tried, da_result, da_runs>>
normVars == <<nz_raw, nz_core, nz_parts, nz_done, nz_out, nz_again, nz_core_out>>

vars == <<rate_state, now_ts, rs_now, rs_reg, rs_index, rs_pc, rs_mgr, rs_checker, rs_test,
          km_now, km_live, km_regs, key_quotas, last_quota_check, km_selected,
          km_check, fb_keys, fb_pc, fb_list, fb_tried, fb_result,
          tr_in, tr_pc, tr_agg, tr_chk,
          history_file, live_file, rate_file, run_pc, run_idx, run_count,
          args, prev_live_urls, candidates, alive_urls, all_nodes, url_meta,
          refined_alive_urls, verified_nodes, verified_region_to_nodes,
          verified_proto_to_nodes, sources_new, sources_removed,
          good_nodes,
          net_failed,
          last_req,
          sound_nodes,
          run_keys,
          rt_config, rt_calls, rt_slept, rt_pc, rt_ended,
          rg_config, rg_file, rg_index, rg_searched, rg_runs,
          hs_file, hs_start, hs_runs,
          mk_pc, mk_idx, mk_alive, mk_gh, mk_before,
          failed_keys, sr_key, sr_status, sr_count,
          ks_keys_file, ks_dates_file, ks_req, ks_last, ks_overlap, ks_begun,
          notified_urls, nt_delivered, nt_ops,
          da_pc, da_raw, da_base64, da_clash, da_clash_result, da_tried, da_result, da_runs,
          nz_raw, nz_core, nz_parts, nz_done, nz_out, nz_again, nz_core_out>>

(***************************************************************************)
(* Every component at rest: the value its variables keep while another     *)
(* component's specification runs.                                         *)
(***************************************************************************)

URLS == {"u1", "u2"}

\* rate_state.get(url) when the url has no entry
NoInfo == [hits |-> 0, last_reason |-> "", last_at |-> 0, next_allowed_at |-> 0]

\* no HTTP request
NoRequest ==
    [kind |-> "none", url |-> "", code |-> 0, backed_off |-> FALSE,
     signal |-> FALSE, exhausted |-> FALSE, after_net_error |-> FALSE,
     failed |-> FALSE]

\* the source state tracker at rest
IdleRate ==
    /\ rate_state = [u \in URLS |-> NoInfo]
    /\ now_ts = 0

\* the reset-date component at rest
IdleReset ==
    /\ rs_now = [y |-> 2025, m |-> 1, d |-> 1]
    /\ rs_reg = [y |-> -1, m |-> 0, d |-> 0]
    /\ rs_index = 1
    /\ rs_pc = "idle"
    /\ rs_mgr = "none"
    /\ rs_checker = "none"
    /\ rs_test = "none"

\* the key manager at rest
IdleKey ==
    /\ km_now = [day |-> 0, sec |-> 0]
    /\ km_live = <<>>
    /\ km_regs = <<>>
    /\ key_quotas = <<>>
    /\ last_quota_check = [day |-> -1, sec |-> 0]
    /\ km_selected = [key |-> "unset", considered |-> <<>>]
    /\ km_check = [gap |-> -1, live |-> FALSE]

IdleRetry ==
    /\ rt_config = <<>>
    /\ rt_calls = 0
    /\ rt_slept = <<>>
    /\ rt_pc = "calling"
    /\ rt_ended = 0

IdleRegion ==
    /\ rg_config = <<>>
    /\ rg_file = 0
    /\ rg_index = 0
    /\ rg_searched = <<>>
    /\ rg_runs = 0

IdleHistory ==
    /\ hs_file = {}
    /\ hs_start = {}
    /\ hs_runs = 0

IdleMarks ==
    /\ mk_pc = "idle"
    /\ mk_idx = 1
    /\ mk_alive = <<>>
    /\ mk_gh = {}
    /\ mk_before = [u \in URLS |-> 0]

IdleSearch ==
    /\ failed_keys = {}
    /\ sr_key = "unset"
    /\ sr_status = 0
    /\ sr_count = 0

IdleStore ==
    /\ ks_keys_file = {}
    /\ ks_dates_file = {}
    /\ ks_req = [t \in {"t1", "t2"} |-> [op |-> "none", key |-> "", pc |-> "idle", keys |-> {}, dates |-> {}]]
    /\ ks_last = [k \in {"k1", "k2"} |-> "none"]
    /\ ks_overlap = FALSE
    /\ ks_begun = 0

IdleAlert ==
    /\ notified_urls = {}
    /\ nt_delivered = [u \in {"s1", "s2"} |-> <<0, 0, 0>>]
    /\ nt_ops = 0

IdleDual ==
    /\ da_pc = "idle"
    /\ da_raw = [len |-> -1, head |-> ""]
    /\ da_base64 = 0
    /\ da_clash = [len |-> -1, head |-> ""]
    /\ da_clash_result = [empty |-> TRUE, nodes |-> 0]
    /\ da_tried = 0
    /\ da_result = [method |-> "", nodes |-> 0]
    /\ da_runs = 0

\* no call of try_key_with_fallback
IdleFallback ==
    /\ fb_keys = <<>>
    /\ fb_pc = "ready"
    /\ fb_list = <<>>
    /\ fb_tried = <<>>
    /\ fb_result = "unset"

\* a traffic figure that was not found in the text (None)
NoFigure == [known |-> FALSE, val |-> 0, unit |-> "GB"]
NoTraffic == [total |-> NoFigure, used |-> NoFigure, remaining |-> NoFigure]

\* the traffic engines at rest
IdleTraffic ==
    /\ tr_in = NoTraffic
    /\ tr_pc = "idle"
    /\ tr_agg = NoTraffic
    /\ tr_chk = NoTraffic

\* no aggregation run has started
IdleAgg ==
    /\ history_file = <<>>
    /\ live_file = <<>>
    /\ rate_file = <<>>
    /\ run_pc = "idle"
    /\ run_idx = 1
    /\ run_count = 0
    /\ args = [dedup |-> FALSE, max |-> 0]
    /\ prev_live_urls = <<>>
    /\ candidates = <<>>
    /\ alive_urls = <<>>
    /\ all_nodes = <<>>
    /\ url_meta = <<>>
    /\ refined_alive_urls = <<>>
    /\ verified_nodes = <<>>
    /\ verified_region_to_nodes = <<>>
    /\ verified_proto_to_nodes = <<>>
    /\ sources_new = 0
    /\ sources_removed = 0
    /\ good_nodes = <<>>
    /\ net_failed = {}
    /\ last_req = NoRequest
    /\ sound_nodes = {}
    /\ run_keys = "unread"

\* the normaliser at rest
IdleNorm ==
    /\ nz_raw = <<>>
    /\ nz_core = <<>>
    /\ nz_parts = <<>>
    /\ nz_done = {}
    /\ nz_out = <<>>
    /\ nz_again = <<>>
    /\ nz_core_out = <<>>

\* the aggregation run works on rate_state and now_ts as well
notRate == <<resetVars, keyVars, trafficVars, aggVars, normVars, fbVars, retryVars, regionVars, historyVars, marksVars, searchVars, storeVars, alertVars, dualVars>>
notReset == <<rateVars, keyVars, trafficVars, aggVars, normVars, fbVars, retryVars, regionVars, historyVars, marksVars, searchVars, storeVars, alertVars, dualVars>>
notKey == <<rateVars, resetVars, trafficVars, aggVars, normVars, fbVars, retryVars, regionVars, historyVars, marksVars, searchVars, storeVars, alertVars, dualVars>>
notTraffic == <<rateVars, resetVars, keyVars, aggVars, normVars, fbVars, retryVars, regionVars, historyVars, marksVars, searchVars, storeVars, alertVars, dualVars>>
notAgg == <<resetVars, keyVars, trafficVars, normVars, fbVars, retryVars, regionVars, historyVars, marksVars, searchVars, storeVars, alertVars, dualVars>>
notNorm == <<rateVars, resetVars, keyVars, trafficVars, aggVars, fbVars, retryVars, regionVars, historyVars, marksVars, searchVars, storeVars, alertVars, dualVars>>
notFallback == <<rateVars, resetVars, trafficVars, aggVars, normVars, retryVars, regionVars, historyVars, marksVars, searchVars, storeVars, alertVars, dualVars>>
notDual == <<rateVars, resetVars, keyVars, fbVars, trafficVars, aggVars, retryVars, regionVars, historyVars, marksVars, searchVars, storeVars, alertVars, normVars>>
notAlert == <<rateVars, resetVars, keyVars, fbVars, trafficVars, aggVars, retryVars, regionVars, historyVars, marksVars, searchVars, storeVars, normVars, dualVars>>
notStore == <<rateVars, resetVars, keyVars, fbVars, trafficVars, aggVars, retryVars, regionVars, historyVars, marksVars, searchVars, normVars, alertVars, dualVars>>
notSearch == <<rateVars, resetVars, fbVars, trafficVars, aggVars, retryVars, regionVars, historyVars, marksVars, normVars, storeVars, alertVars, dualVars>>
notMarks == <<resetVars, keyVars, fbVars, trafficVars, aggVars, retryVars, regionVars, historyVars, normVars, searchVars, storeVars, alertVars, dualVars>>
notHistory == <<rateVars, resetVars, keyVars, fbVars, trafficVars, aggVars, retryVars, regionVars, normVars, marksVars, searchVars, storeVars, alertVars, dualVars>>
notRegion == <<rateVars, resetVars, keyVars, fbVars, trafficVars, aggVars, retryVars, normVars, historyVars, marksVars, searchVars, storeVars, alertVars, dualVars>>
notRetry == <<rateVars, resetVars, keyVars, fbVars, trafficVars, aggVars, normVars, regionVars, historyVars, marksVars, searchVars, storeVars, alertVars, dualVars>>

IdleNotRate == IdleReset /\ IdleKey /\ IdleTraffic /\ IdleAgg /\ IdleNorm /\ IdleFallback /\ IdleRetry /\ IdleRegion /\ IdleHistory /\ IdleMarks /\ IdleSearch /\ IdleStore /\ IdleAlert /\ IdleDual
IdleNotReset == IdleRate /\ IdleKey /\ IdleTraffic /\ IdleAgg /\ IdleNorm /\ IdleFallback /\ IdleRetry /\ IdleRegion /\ IdleHistory /\ IdleMarks /\ IdleSearch /\ IdleStore /\ IdleAlert /\ IdleDual
IdleNotKey == IdleRate /\ IdleReset /\ IdleTraffic /\ IdleAgg /\ IdleNorm /\ IdleFallback /\ IdleRetry /\ IdleRegion /\ IdleHistory /\ IdleMarks /\ IdleSearch /\ IdleStore /\ IdleAlert /\ IdleDual
IdleNotTraffic == IdleRate /\ IdleReset /\ IdleKey /\ IdleAgg /\ IdleNorm /\ IdleFallback /\ IdleRetry /\ IdleRegion /\ IdleHistory /\ IdleMarks /\ IdleSearch /\ IdleStore /\ IdleAlert /\ IdleDual
IdleNotAgg == IdleReset /\ IdleKey /\ IdleTraffic /\ IdleNorm /\ IdleFallback /\ IdleRetry /\ IdleRegion /\ IdleHistory /\ IdleMarks /\ IdleSearch /\ IdleStore /\ IdleAlert /\ IdleDual
IdleNotNorm == IdleRate /\ IdleReset /\ IdleKey /\ IdleTraffic /\ IdleAgg /\ IdleFallback /\ IdleRetry /\ IdleRegion /\ IdleHistory /\ IdleMarks /\ IdleSearch /\ IdleStore /\ IdleAlert /\ IdleDual
IdleNotFallback == IdleRate /\ IdleReset /\ IdleTraffic /\ IdleAgg /\ IdleNorm /\ IdleRetry /\ IdleRegion /\ IdleHistory /\ IdleMarks /\ IdleSearch /\ IdleStore /\ IdleAlert /\ IdleDual
IdleNotDual == IdleRate /\ IdleReset /\ IdleKey /\ IdleRetry /\ IdleRegion /\ IdleHistory /\ IdleMarks /\ IdleSearch /\ IdleStore /\ IdleAlert /\ IdleFallback /\ IdleTraffic /\ IdleAgg /\ IdleNorm
IdleNotAlert == IdleRate /\ IdleReset /\ IdleKey /\ IdleRetry /\ IdleRegion /\ IdleHistory /\ IdleMarks /\ IdleSearch /\ IdleStore /\ IdleFallback /\ IdleTraffic /\ IdleAgg /\ IdleNorm /\ IdleDual
IdleNotStore == IdleRate /\ IdleReset /\ IdleKey /\ IdleRetry /\ IdleRegion /\ IdleHistory /\ IdleMarks /\ IdleSearch /\ IdleFallback /\ IdleTraffic /\ IdleAgg /\ IdleNorm /\ IdleAlert /\ IdleDual
IdleNotSearch == IdleRate /\ IdleReset /\ IdleRetry /\ IdleRegion /\ IdleHistory /\ IdleMarks /\ IdleFallback /\ IdleTraffic /\ IdleAgg /\ IdleNorm /\ IdleStore /\ IdleAlert /\ IdleDual
IdleNotMarks == IdleReset /\ IdleKey /\ IdleRetry /\ IdleRegion /\ IdleHistory /\ IdleFallback /\ IdleTraffic /\ IdleAgg /\ IdleNorm /\ IdleSearch /\ IdleStore /\ IdleAlert /\ IdleDual
IdleNotHistory == IdleRate /\ IdleReset /\ IdleKey /\ IdleRetry /\ IdleRegion /\ IdleFallback /\ IdleTraffic /\ IdleAgg /\ IdleNorm /\ IdleMarks /\ IdleSearch /\ IdleStore /\ IdleAlert /\ IdleDual
IdleNotRegion == IdleRate /\ IdleReset /\ IdleKey /\ IdleRetry /\ IdleFallback /\ IdleTraffic /\ IdleAgg /\ IdleNorm /\ IdleHistory /\ IdleMarks /\ IdleSearch /\ IdleStore /\ IdleAlert /\ IdleDual
IdleNotRetry == IdleRate /\ IdleReset /\ IdleKey /\ IdleFallback /\ IdleTraffic /\ IdleAgg /\ IdleNorm /\ IdleRegion /\ IdleHistory /\ IdleMarks /\ IdleSearch /\ IdleStore /\ IdleAlert /\ IdleDual


(***************************************************************************)
(* Source state tracker (aggregator_cli.py, rate-limit backoff)            *)
(***************************************************************************)

\* bounds
MaxHits == 10
MaxClock == 4500

TickSteps == {900, 1800}
REASONS == {"http 429", "body-hint"}

Min(a, b) == IF a <= b THEN a ELSE b

RECURSIVE Pow2(_)
Pow2(n) == IF n <= 0 THEN 1 ELSE 2 * Pow2(n - 1)

\* info.get("hits", 0): a missing entry reads as 0 hits
InfoHits(state, url) == state[url].hits

\* mutant: the exponent is the count after the increment instead of count - 1
MarkedInfo_OffByOne(state, url, now, reason) ==
    LET hits == InfoHits(state, url) + 1
        base_minutes == 15 * Pow2(hits)
        wait_minutes == Min(base_minutes, 24 * 60)
    IN  [hits |-> hits, last_reason |-> reason, last_at |-> now,
         next_allowed_at |-> now + wait_minutes * 60]

\* mutant: the 24 hour cap is dropped
MarkedInfo_NoCap(state, url, now, reason) ==
    LET hits == InfoHits(state, url) + 1
        base_minutes == 15 * Pow2(hits - 1)
    IN  [hits |-> hits, last_reason |-> reason, last_at |-> now,
         next_allowed_at |-> now + base_minutes * 60]

\* mutant: the count starts again at 1 when the previous wait is over
MarkedInfo_RestartWhenActive(state, url, now, reason) ==
    LET hits == IF now >= state[url].next_allowed_at THEN 1 ELSE InfoHits(state, url) + 1
        base_minutes == 15 * Pow2(hits - 1)
        wait_minutes == Min(base_minutes, 24 * 60)
    IN  [hits |-> hits, last_reason |-> reason, last_at |-> now,
         next_allowed_at |-> now + wait_minutes * 60]

\* the entry mark_rate_limited stores for url
MarkedInfo(state, url, now, reason) ==
    LET hits == InfoHits(state, url) + 1
        base_minutes == 15 * Pow2(hits - 1)
        wait_minutes == Min(base_minutes, 24 * 60)
        next_allowed_at == now + wait_minutes * 60
    IN  [hits |-> hits, last_reason |-> reason, last_at |-> now,
         next_allowed_at |-> next_allowed_at]

mark_rate_limited(state, url, now, reason) ==
    [state EXCEPT ![url] = MarkedInfo(state, url, now, reason)]

\* mutant: the wait is counted from the time of the mark
should_skip_due_to_backoff_SinceMark(state, url, now) ==
    IF state[url] = NoInfo THEN FALSE
    ELSE now < state[url].last_at

should_skip_due_to_backoff(state, url, now) ==
    IF state[url] = NoInfo THEN FALSE
    ELSE now < state[url].next_allowed_at

InitRateVars ==
    /\ rate_state = [u \in URLS |-> NoInfo]
    /\ now_ts = 0

\* a caller records one rate-limit signal for url u at the current time
MarkRateLimited(u, reason) ==
    /\ rate_state[u].hits < MaxHits
    /\ rate_state' = mark_rate_limited(rate_state, u, now_ts, reason)
    /\ UNCHANGED <<now_ts, notRate>>

\* time passes between two calls
Tick(d) ==
    /\ now_ts + d <= MaxClock
    /\ now_ts' = now_ts + d
    /\ UNCHANGED <<rate_state, notRate>>

InitRate == InitRateVars /\ IdleNotRate

NextRate ==
    \/ \E u \in URLS, r \in REASONS : MarkRateLimited(u, r)
    \/ \E d \in TickSteps : Tick(d)

SpecRate == InitRate /\ [][NextRate]_vars

(***************************************************************************)
(* Calendar helpers (datetime / calendar as used by the key manager)       *)
(***************************************************************************)

Date(y, m, d) == [y |-> y, m |-> m, d |-> d]

\* the outcome of a datetime.replace / strptime that raised ValueError
ValueError == [y |-> 0, m |-> 0, d |-> 0]

IsLeap(y) == (y % 4 = 0 /\ y % 100 # 0) \/ y % 400 = 0

\* calendar.monthrange(y, m)[1]
DaysInMonth(y, m) ==
    IF m = 2 THEN (IF IsLeap(y) THEN 29 ELSE 28)
    ELSE IF m \in {4, 6, 9, 11} THEN 30 ELSE 31

IsValidDate(dt) ==
    /\ dt.m \in 1..12
    /\ dt.d >= 1
    /\ dt.d <= DaysInMonth(dt.y, dt.m)

\* datetime comparison of two midnights / of a midnight with a later time of
\* the same day: a <= b on the calendar date
DateLE(a, b) ==
    \/ a.y < b.y
    \/ a.y = b.y /\ a.m < b.m
    \/ a.y = b.y /\ a.m = b.m /\ a.d <= b.d

DateLT(a, b) == DateLE(a, b) /\ a # b

\* datetime.replace(year=y, month=m): ValueError when the day does not exist
ReplaceYM(dt, y, m) ==
    IF dt.d <= DaysInMonth(y, m) THEN Date(y, m, dt.d) ELSE ValueError

\* date + timedelta(days=1)
NextDate(dt) ==
    IF dt.d < DaysInMonth(dt.y, dt.m) THEN Date(dt.y, dt.m, dt.d + 1)
    ELSE IF dt.m < 12 THEN Date(dt.y, dt.m + 1, 1)
    ELSE Date(dt.y + 1, 1, 1)

\* date + timedelta(days=n)
RECURSIVE AddDays(_, _)
AddDays(dt, n) == IF n <= 0 THEN dt ELSE AddDays(NextDate(dt), n - 1)

\* the clamp "if day > last_day_of_month: replace(day=last_day_of_month)"
ClampDay(dt) ==
    IF dt.d > DaysInMonth(dt.y, dt.m)
    THEN Date(dt.y, dt.m, DaysInMonth(dt.y, dt.m)) ELSE dt

(***************************************************************************)
(* Next reset date of a credential                                         *)
(***************************************************************************)

\* the branch taken when a registration date is recorded; ValueError when a
\* replace() raised (the except ValueError clause then falls through to the
\* index based default)
RegisteredReset(registration_date, now) ==
    LET first == IF now.m = 12
                 THEN ReplaceYM(registration_date, now.y + 1, registration_date.m)
                 ELSE ReplaceYM(registration_date, now.y, now.m + 1)
        second == IF now.m = 11 THEN ReplaceYM(registration_date, now.y + 1, 1)
                  ELSE IF now.m = 12 THEN ReplaceYM(registration_date, now.y + 1, 2)
                  ELSE ReplaceYM(registration_date, now.y, now.m + 2)
    IN  IF first = ValueError THEN ValueError
        ELSE IF DateLE(first, now)
             THEN (IF second = ValueError THEN ValueError ELSE ClampDay(second))
             ELSE ClampDay(first)

\* the default when no registration date is recorded (or it failed): the first
\* day of next month plus 7 days per key index
DefaultReset(key_index, now) ==
    LET offset_days == (key_index - 1) * 7
        next_month == IF now.m = 12 THEN Date(now.y + 1, 1, 1)
                      ELSE Date(now.y, now.m + 1, 1)
    IN  ClampDay(AddDays(next_month, offset_days))

\* EnhancedSerpAPIKeyManager._calculate_next_reset_date; registration is the
\* date recorded for the key, or NoRegistration
NoRegistration == [y |-> -1, m |-> 0, d |-> 0]

mgr_calculate_next_reset_date(registration, key_index, now) ==
    IF registration # NoRegistration /\ RegisteredReset(registration, now) # ValueError
    THEN RegisteredReset(registration, now)
    ELSE DefaultReset(key_index, now)

\* SubscriptionChecker._calculate_next_reset_date: the same code, copied
checker_calculate_next_reset_date(registration, key_index, now) ==
    IF registration # NoRegistration /\ RegisteredReset(registration, now) # ValueError
    THEN RegisteredReset(registration, now)
    ELSE DefaultReset(key_index, now)

\* test_reset_time.py calculate_next_reset_date
test_calculate_next_reset_date(registration_date, now) ==
    LET last_day == DaysInMonth(now.y, now.m)
        current_month == Date(now.y, now.m, Min(registration_date.d, last_day))
        next_year == IF now.m = 12 THEN now.y + 1 ELSE now.y
        next_month == IF now.m = 12 THEN 1 ELSE now.m + 1
        next_reset ==
            IF DateLT(now, current_month) THEN current_month
            ELSE IF ReplaceYM(registration_date, next_year, next_month) # ValueError
                 THEN ReplaceYM(registration_date, next_year, next_month)
                 ELSE Date(next_year, next_month,
                           Min(registration_date.d, DaysInMonth(next_year, next_month)))
    IN  ClampDay(next_reset)


(***************************************************************************)
(* Key quota scheduler (enhanced_key_manager.py)                           *)
(***************************************************************************)

\* bounds
MaxSec == 600
MaxDay == 1

KEYS == {"kA", "kB", "kC"}

\* self.api_keys, in keys-file order
api_keys == <<"kA", "kB", "kC">>

\* the calendar date of day 0 of the key manager's clock
StartDate == Date(2025, 1, 29)

WaitSteps == {200, 300}

\* self.last_quota_check = None
NoCheck == [day |-> -1, sec |-> 0]

\* the answers of the account endpoint the model draws from: a failed query
\* carries neither status nor remaining count
LiveAnswers ==
    { [success |-> TRUE, account_status |-> "Active", total_searches_left |-> 50],
      [success |-> TRUE, account_status |-> "Active", total_searches_left |-> 0],
      [success |-> TRUE, account_status |-> "Inactive", total_searches_left |-> 50],
      [success |-> FALSE, account_status |-> "", total_searches_left |-> 0] }

RegistrationChoices == {Date(2024, 3, 1), Date(2024, 5, 18), NoRegistration}

\* key_info['reset_date'] before get_optimal_key has set it
NoResetDate == [y |-> 0, m |-> 0, d |-> 0]

\* get_key_quota(api_key)
get_key_quota(api_key, live) ==
    [api_key |-> api_key,
     success |-> live[api_key].success,
     account_status |-> live[api_key].account_status,
     total_searches_left |-> live[api_key].total_searches_left,
     reset_date |-> NoResetDate]

\* (datetime.now() - self.last_quota_check).seconds: the seconds field of the
\* normalised timedelta, its days field left out
TimedeltaSeconds(now, last) ==
    ((now.day - last.day) * 86400 + (now.sec - last.sec)) % 86400

\* dict assignment d[info.api_key] = info on an insertion ordered dict
RECURSIVE DictPut(_, _)
DictPut(d, info) ==
    IF d = <<>> THEN <<info>>
    ELSE IF Head(d).api_key = info.api_key THEN <<info>> \o Tail(d)
    ELSE <<Head(d)>> \o DictPut(Tail(d), info)

RECURSIVE DictPutAll(_, _)
DictPutAll(d, infos) ==
    IF infos = <<>> THEN d ELSE DictPutAll(DictPut(d, Head(infos)), Tail(infos))

IsCacheFresh(force_refresh, last, now) ==
    /\ ~force_refresh
    /\ last # NoCheck
    /\ TimedeltaSeconds(now, last) < 300

\* check_all_quotas of a manager whose self.api_keys is keys: the returned
\* list and the manager's state after the call
check_all_quotas_of(keys, force_refresh, quotas_cache, last, now, live) ==
    IF IsCacheFresh(force_refresh, last, now)
    THEN [results |-> quotas_cache, key_quotas |-> quotas_cache, last_quota_check |-> last]
    ELSE LET results == [i \in 1..Len(keys) |-> get_key_quota(keys[i], live)]
             good == SelectSeq(results, LAMBDA r : r.success)
         IN  [results |-> results,
              key_quotas |-> DictPutAll(quotas_cache, good),
              last_quota_check |-> now]

\* check_all_quotas: the returned list and the manager's state after the call
check_all_quotas(force_refresh, quotas_cache, last, now, live) ==
    check_all_quotas_of(api_keys, force_refresh, quotas_cache, last, now, live)

IsActiveKey(q) == q.success /\ q.account_status = "Active"

\* list.sort(key=reset_datetime): stable, ascending
RECURSIVE InsertByReset(_, _)
InsertByReset(sorted, x) ==
    IF sorted = <<>> THEN <<x>>
    ELSE IF DateLT(x.reset_date, Head(sorted).reset_date) THEN <<x>> \o sorted
    ELSE <<Head(sorted)>> \o InsertByReset(Tail(sorted), x)

RECURSIVE SortByReset(_)
SortByReset(seq) ==
    IF seq = <<>> THEN <<>>
    ELSE InsertByReset(SortByReset(SubSeq(seq, 1, Len(seq) - 1)), seq[Len(seq)])

\* the loop that adds reset_date to every active key_info
KeysWithReset(active_keys, regs, today) ==
    [i \in 1..Len(active_keys) |->
        [active_keys[i] EXCEPT
            !.reset_date = mgr_calculate_next_reset_date(regs[active_keys[i].api_key], i, today)]]

\* mutant: the first key in reset order is taken whatever its remaining quota
PickOptimal_IgnoreRemaining(keys_with_reset) ==
    IF keys_with_reset = <<>> THEN "None" ELSE keys_with_reset[1].api_key

\* the two loops at the end of get_optimal_key over the sorted list
PickOptimal(keys_with_reset) ==
    LET with_quota == SelectSeq(keys_with_reset, LAMBDA k : k.total_searches_left > 0)
    IN  IF with_quota # <<>> THEN with_quota[1].api_key
        ELSE IF keys_with_reset # <<>> THEN keys_with_reset[1].api_key
        ELSE "None"

\* get_optimal_key: the returned key, the sorted list it chose from, and the
\* manager's state after the call (the key_info dicts of the active keys are
\* the cached dicts, so their reset_date lands in the cache)
get_optimal_key(quotas_cache, last, now, live, regs) ==
    LET checked == check_all_quotas(FALSE, quotas_cache, last, now, live)
        active_keys == SelectSeq(checked.results, IsActiveKey)
        today == AddDays(StartDate, now.day)
        keys_with_reset == SortByReset(KeysWithReset(active_keys, regs, today))
    IN  [key |-> PickOptimal(keys_with_reset),
         considered |-> keys_with_reset,
         key_quotas |-> DictPutAll(checked.key_quotas, keys_with_reset),
         last_quota_check |-> checked.last_quota_check]

\* the time that has passed between two readings of the clock, in seconds
ElapsedSeconds(now, last) == (now.day - last.day) * 86400 + (now.sec - last.sec)

\* what an unforced check_all_quotas did: it queried when it moved
\* self.last_quota_check (or when there was no check before it)
UnforcedCheck(last, last_after, now) ==
    [gap |-> IF last = NoCheck THEN -1 ELSE ElapsedSeconds(now, last),
     live |-> last = NoCheck \/ last_after # last]

InitKey ==
    /\ km_now = [day |-> 0, sec |-> 0]
    /\ km_live \in [KEYS -> LiveAnswers]
    /\ km_regs \in [KEYS -> RegistrationChoices]
    /\ key_quotas = <<>>
    /\ last_quota_check = NoCheck
    /\ km_selected = [key |-> "unset", considered |-> <<>>]
    /\ km_check = [gap |-> -1, live |-> FALSE]
    /\ IdleNotKey

GetOptimalKey ==
    LET r == get_optimal_key(key_quotas, last_quota_check, km_now, km_live, km_regs)
    IN  /\ km_selected' = [key |-> r.key, considered |-> r.considered]
        /\ key_quotas' = r.key_quotas
        /\ last_quota_check' = r.last_quota_check
        /\ UNCHANGED <<km_now, km_live, km_regs, km_check, notKey>>

\* searches spend a key's remaining quota (seen by the next live query)
SpendQuota(k) ==
    /\ km_live[k].success
    /\ km_live[k].total_searches_left > 0
    /\ km_live' = [km_live EXCEPT ![k].total_searches_left = 0]
    /\ UNCHANGED <<km_now, km_regs, key_quotas, last_quota_check, km_selected,
                   km_check, notKey>>

WaitSeconds(d) ==
    /\ km_now.sec + d <= MaxSec
    /\ km_now' = [km_now EXCEPT !.sec = @ + d]
    /\ UNCHANGED <<km_live, km_regs, key_quotas, last_quota_check, km_selected,
                   km_check, notKey>>

NextDay ==
    /\ km_now.day < MaxDay
    /\ km_now' = [km_now EXCEPT !.day = @ + 1]
    /\ UNCHANGED <<km_live, km_regs, key_quotas, last_quota_check, km_selected,
                   km_check, notKey>>

NextKey ==
    \/ GetOptimalKey
    \/ \E k \in KEYS : SpendQuota(k)
    \/ \E d \in WaitSteps : WaitSeconds(d)
    \/ NextDay

SpecKey == InitKey /\ [][NextKey]_vars

\* --- specification: the quota cache of check_all_quotas ---

CacheLive ==
    {live \in [KEYS -> LiveAnswers] : live["kB"] = live["kC"]}

InitCache ==
    /\ km_now = [day |-> 0, sec |-> 0]
    /\ km_live \in CacheLive
    /\ km_regs = [k \in KEYS |-> NoRegistration]
    /\ key_quotas = <<>>
    /\ last_quota_check = NoCheck
    /\ km_selected = [key |-> "unset", considered |-> <<>>]
    /\ km_check = [gap |-> -1, live |-> FALSE]
    /\ IdleNotKey

\* check_all_quotas(force_refresh) on the manager of api_keys
CheckQuotas(force_refresh) ==
    LET r == check_all_quotas(force_refresh, key_quotas, last_quota_check, km_now, km_live)
    IN  /\ key_quotas' = r.key_quotas
        /\ last_quota_check' = r.last_quota_check
        /\ km_check' = IF force_refresh THEN km_check
                       ELSE UnforcedCheck(last_quota_check, r.last_quota_check, km_now)
        /\ UNCHANGED <<km_now, km_live, km_regs, km_selected, notKey>>

\* the account endpoint answers differently from now on
LiveChanges(live) ==
    /\ live # km_live
    /\ km_live' = live
    /\ UNCHANGED <<km_now, km_regs, key_quotas, last_quota_check, km_selected,
                   km_check, notKey>>

NextCache ==
    \/ \E force_refresh \in BOOLEAN : CheckQuotas(force_refresh)
    \/ \E live \in CacheLive : LiveChanges(live)
    \/ \E d \in WaitSteps : WaitSeconds(d)
    \/ NextDay

SpecCache == InitCache /\ [][NextCache]_vars


\* --- specification: searches of the scraper and the failed keys ---

\* bounds
MaxSearches == 4

\* HTTP status of a search: served, authentication failure, rate limit, other
SearchStatuses == {200, 401, 429, 500}

\* kC is active with quota left throughout
SearchLive ==
    {live \in [KEYS -> LiveAnswers] :
        /\ live["kC"] = [success |-> TRUE, account_status |-> "Active",
                         total_searches_left |-> 50]
        /\ live["kA"].success}

InitSearch ==
    /\ km_now = [day |-> 0, sec |-> 0]
    /\ km_live \in SearchLive
    /\ km_regs \in [KEYS -> {Date(2024, 5, 18), NoRegistration}]
    /\ key_quotas = <<>>
    /\ last_quota_check = NoCheck
    /\ km_selected = [key |-> "unset", considered |-> <<>>]
    /\ km_check = [gap |-> -1, live |-> FALSE]
    /\ IdleSearch
    /\ IdleNotSearch

\* search_google_with_serpapi: the key is the one get_optimal_key returns;
\* without a key no request is sent; a 401 or 429 marks the key failed
SearchGoogle(status) ==
    /\ sr_count < MaxSearches
    /\ LET r == get_optimal_key(key_quotas, last_quota_check, km_now, km_live, km_regs)
       IN  /\ km_selected' = [key |-> r.key, considered |-> r.considered]
           /\ key_quotas' = r.key_quotas
           /\ last_quota_check' = r.last_quota_check
           /\ sr_key' = r.key
           /\ sr_status' = IF r.key = "None" THEN 0 ELSE status
           /\ failed_keys' = IF r.key # "None" /\ status \in {401, 429}
                             THEN failed_keys \cup {r.key} ELSE failed_keys
    /\ sr_count' = sr_count + 1
    /\ UNCHANGED <<km_now, km_live, km_regs, km_check, notSearch>>

\* reset_failed_keys
ResetFailedKeys ==
    /\ failed_keys # {}
    /\ failed_keys' = {}
    /\ UNCHANGED <<sr_key, sr_status, sr_count, keyVars, notSearch>>

NextSearch ==
    \/ \E status \in SearchStatuses : SearchGoogle(status)
    \/ ResetFailedKeys
    \/ \E d \in WaitSteps : WaitSeconds(d)

SpecSearch == InitSearch /\ [][NextSearch]_vars

\* another credential that is not marked failed answers the account
\* endpoint as active with searches left
OtherActiveKey(key) ==
    \E k \in KEYS \ (failed_keys \cup {key}) :
        /\ km_live[k].success
        /\ km_live[k].account_status = "Active"
        /\ km_live[k].total_searches_left > 0

\* C25: a credential that is marked failed is not the key of a later
\* search, until the failed set is reset, as long as another active
\* credential exists.
C25_FailedKeyNotSelected ==
    [][(sr_count' = sr_count + 1 /\ sr_key' \in failed_keys)
           => ~OtherActiveKey(sr_key')]_vars

\* whatever is marked failed, a search gets the key that get_optimal_key
\* chooses from the account answers
C25_SelectedByQuotaOnly ==
    [][(sr_count' = sr_count + 1)
           => sr_key' = get_optimal_key(key_quotas, last_quota_check, km_now,
                                        km_live, km_regs).key]_vars

\* a search was served with a key that an earlier search had marked failed,
\* while another credential was active and not marked
C25_FailedKeyUsedAgain ==
    /\ sr_count >= 2
    /\ sr_status = 200
    /\ sr_key \in failed_keys
    /\ OtherActiveKey(sr_key)

\* --- specification: try_key_with_fallback ---

\* bounds
MaxKeyLines == 3

\* the contents of the keys file: _load_api_keys keeps every non-empty line,
\* in file order, repeated lines included (main() writes the keys of
\* SCRAPER_KEYS followed by those of SERPAPI_KEY_1..10 into it as they come)
KeyFiles == UNION {[1..n -> KEYS] : n \in 0..MaxKeyLines}

FallbackLive ==
    {live \in [KEYS -> LiveAnswers] :
        live["kC"] = [success |-> TRUE, account_status |-> "Active",
                      total_searches_left |-> 50]}

FallbackRegs ==
    { [k \in KEYS |-> NoRegistration],
      [k \in KEYS |-> IF k = "kA" THEN Date(2024, 5, 18)
                      ELSE IF k = "kB" THEN Date(2024, 3, 1)
                      ELSE NoRegistration] }

\* what operation_func(api_key) does: returns a result, returns None, raises
OpOutcomes == {"result", "None", "raises"}

\* priority_keys = keys_with_quota + keys_without_quota
PriorityKeys(keys_with_reset) ==
    SelectSeq(keys_with_reset, LAMBDA k : k.total_searches_left > 0)
    \o SelectSeq(keys_with_reset, LAMBDA k : k.total_searches_left <= 0)

\* get_key_priority_list: the returned key_list and the manager's state
\* after the call
get_key_priority_list(keys, quotas_cache, last, now, live, regs) ==
    LET checked == check_all_quotas_of(keys, FALSE, quotas_cache, last, now, live)
        active_keys == SelectSeq(checked.results, IsActiveKey)
        today == AddDays(StartDate, now.day)
        keys_with_reset == SortByReset(KeysWithReset(active_keys, regs, today))
        priority_keys == PriorityKeys(keys_with_reset)
    IN  [key_list |-> [i \in 1..Len(priority_keys) |-> priority_keys[i].api_key],
         key_quotas |-> DictPutAll(checked.key_quotas, keys_with_reset),
         last_quota_check |-> checked.last_quota_check]

\* key_list[:max_retries]
KeySlice(key_list, max_retries) ==
    SubSeq(key_list, 1, Min(max_retries, Len(key_list)))

InitFallback ==
    /\ km_now = [day |-> 0, sec |-> 0]
    /\ km_live \in FallbackLive
    /\ km_regs \in FallbackRegs
    /\ key_quotas = <<>>
    /\ last_quota_check = NoCheck
    /\ km_selected = [key |-> "unset", considered |-> <<>>]
    /\ km_check = [gap |-> -1, live |-> FALSE]
    /\ fb_keys \in KeyFiles
    /\ fb_pc = "ready"
    /\ fb_list = <<>>
    /\ fb_tried = <<>>
    /\ fb_result = "unset"
    /\ IdleNotFallback

\* check_all_quotas(force_refresh=True), as main() calls it before a scrape
CheckAllQuotas ==
    /\ fb_pc = "ready"
    /\ last_quota_check = NoCheck
    /\ LET r == check_all_quotas_of(fb_keys, TRUE, key_quotas, last_quota_check,
                                    km_now, km_live)
       IN  /\ key_quotas' = r.key_quotas
           /\ last_quota_check' = r.last_quota_check
    /\ UNCHANGED <<km_now, km_live, km_regs, km_selected, km_check, fbVars,
                   notFallback>>

FallbackWait(d) == fb_pc = "ready" /\ WaitSeconds(d)

\* try_key_with_fallback up to its loop; no caller passes max_retries, so
\* that it is len(key_list)
StartFallback ==
    /\ fb_pc = "ready"
    /\ LET r == get_key_priority_list(fb_keys, key_quotas, last_quota_check,
                                      km_now, km_live, km_regs)
       IN  /\ fb_list' = KeySlice(r.key_list, Len(r.key_list))
           /\ key_quotas' = r.key_quotas
           /\ last_quota_check' = r.last_quota_check
           /\ fb_pc' = IF r.key_list = <<>> THEN "done" ELSE "loop"
           /\ fb_result' = IF r.key_list = <<>> THEN "None" ELSE fb_result
    /\ UNCHANGED <<km_now, km_live, km_regs, km_selected, km_check, fb_keys,
                   fb_tried, notFallback>>

\* one pass of the loop: operation_func(api_key) is called; a result that is
\* not None is returned, None or an exception lets the loop go on, and the
\* end of the list returns None
TryKey(out) ==
    /\ fb_pc = "loop"
    /\ fb_tried' = Append(fb_tried, [key |-> fb_list[Len(fb_tried) + 1], out |-> out])
    /\ IF out = "result"
       THEN fb_result' = fb_list[Len(fb_tried) + 1] /\ fb_pc' = "done"
       ELSE IF Len(fb_tried) + 1 = Len(fb_list)
       THEN fb_result' = "None" /\ fb_pc' = "done"
       ELSE UNCHANGED <<fb_result, fb_pc>>
    /\ UNCHANGED <<keyVars, fb_keys, fb_list, notFallback>>

NextFallback ==
    \/ CheckAllQuotas
    \/ \E d \in {300} : FallbackWait(d)
    \/ StartFallback
    \/ \E out \in OpOutcomes : TryKey(out)

SpecFallback == InitFallback /\ [][NextFallback]_vars

\* the keys operation_func was called with, in call order
TriedKeys == [i \in 1..Len(fb_tried) |-> fb_tried[i].key]

NoRepeat(seq) == \A i, j \in 1..Len(seq) : i # j => seq[i] # seq[j]

\* the calls follow key_list in order, the first call that gives a result
\* ends the loop and its result is returned, and None is returned only
\* after a call for every entry of key_list
FallbackFollowsList ==
    /\ TriedKeys = SubSeq(fb_list, 1, Len(fb_tried))
    /\ \A i \in 1..Len(fb_tried) :
           fb_tried[i].out = "result" =>
               /\ i = Len(fb_tried)
               /\ fb_pc = "done"
               /\ fb_result = fb_tried[i].key
    /\ (fb_pc = "done" /\ fb_result = "None") =>
           /\ Len(fb_tried) = Len(fb_list)
           /\ \A i \in 1..Len(fb_tried) : fb_tried[i].out # "result"
    /\ (fb_pc = "done" /\ fb_result # "None") =>
           /\ fb_tried # <<>>
           /\ fb_tried[Len(fb_tried)].out = "result"

\* C16: try_key_with_fallback calls the operation with the credentials of the
\* priority list in order, stops at the first one that succeeds and returns
\* its result, reports failure only after every credential of the list was
\* tried, and never calls the operation twice with the same credential
\* within one call.
C16_EachCredentialTriedOnceInOrder ==
    /\ FallbackFollowsList
    /\ NoRepeat(TriedKeys)

\* order, first success and failure after the whole list hold for every
\* keys file
C16_FollowsListToFirstSuccess ==
    FallbackFollowsList /\ fb_pc \in {"ready", "loop", "done"}

\* with a keys file without repeated lines no credential is tried twice
C16_DistinctLinesTriedOnce == NoRepeat(fb_keys) => NoRepeat(TriedKeys)

\* one call has tried the same credential twice and returned None
C16_SameCredentialTriedTwice ==
    /\ fb_pc = "done"
    /\ fb_result = "None"
    /\ Len(fb_tried) = 2
    /\ fb_tried[1].key = fb_tried[2].key
    /\ fb_keys = <<fb_tried[1].key, fb_tried[1].key>>

\* --- specification: next reset date, over a range of calendar dates ---

\* bounds
MaxKeyIndex == 2

ResetToday ==
    { dt \in [y : {2024, 2025}, m : 1..12, d : 1..31] :
         /\ IsValidDate(dt)
         /\ (dt.y = 2024 => dt.m <= 2) }
RegistrationDays == {5, 29, 30, 31}
ResetRegistrations ==
    { dt \in [y : {2024}, m : 1..12, d : RegistrationDays] : IsValidDate(dt) }

InitReset ==
    /\ rs_now \in ResetToday
    /\ rs_reg \in ResetRegistrations \cup {NoRegistration}
    /\ rs_index \in 1..MaxKeyIndex
    /\ rs_pc = "start"
    /\ rs_mgr = "none"
    /\ rs_checker = "none"
    /\ rs_test = "none"
    /\ IdleNotReset

CalcResetManager ==
    /\ rs_pc = "start"
    /\ rs_mgr' = mgr_calculate_next_reset_date(rs_reg, rs_index, rs_now)
    /\ rs_pc' = "mgr"
    /\ UNCHANGED <<rs_now, rs_reg, rs_index, rs_checker, rs_test, notReset>>

CalcResetChecker ==
    /\ rs_pc = "mgr"
    /\ rs_checker' = checker_calculate_next_reset_date(rs_reg, rs_index, rs_now)
    /\ rs_pc' = "checker"
    /\ UNCHANGED <<rs_now, rs_reg, rs_index, rs_mgr, rs_test, notReset>>

\* the test script only computes a date for recorded registration dates
CalcResetTest ==
    /\ rs_pc = "checker"
    /\ rs_reg # NoRegistration
    /\ rs_test' = test_calculate_next_reset_date(rs_reg, rs_now)
    /\ rs_pc' = "done"
    /\ UNCHANGED <<rs_now, rs_reg, rs_index, rs_mgr, rs_checker, notReset>>

NextReset ==
    \/ CalcResetManager
    \/ CalcResetChecker
    \/ CalcResetTest

SpecReset == InitReset /\ [][NextReset]_vars

\* --- claim formulas: key selection ---

SeqRange(seq) == { seq[i] : i \in 1..Len(seq) }

\* C2: selectKey returns, among the (active) credentials with remaining quota
\* > 0, the one whose next-reset date is soonest; if no credential has
\* remaining quota, the one whose next-reset date is soonest overall. With A
\* (remaining 0, resets in 3 days) and B (remaining 50, resets in 20 days) it
\* returns B.
C2_SelectsSoonestResetWithQuota ==
    km_selected.key # "unset" =>
        LET creds == SeqRange(km_selected.considered)
            with_quota == { q \in creds : q.total_searches_left > 0 }
            pool == IF with_quota # {} THEN with_quota ELSE creds
        IN  /\ (creds = {} <=> km_selected.key = "None")
            /\ creds # {} =>
                 \E chosen \in pool :
                    /\ chosen.api_key = km_selected.key
                    /\ \A q \in pool : DateLE(chosen.reset_date, q.reset_date)
            /\ \A a, b \in creds :
                 ( /\ a.total_searches_left = 0
                   /\ b.total_searches_left = 50
                   /\ a.reset_date = AddDays(StartDate, km_now.day + 3)
                   /\ b.reset_date = AddDays(StartDate, km_now.day + 20)
                   /\ Cardinality(creds) = 2 ) => km_selected.key = b.api_key

\* the scenario of the claim: A exhausted and resetting in 3 days, B with 50
\* searches left and resetting in 20 days, B selected
C2_Witness ==
    /\ km_selected.key # "unset"
    /\ km_now.day = 0
    /\ \E a, b \in SeqRange(km_selected.considered) :
          /\ a.total_searches_left = 0
          /\ a.reset_date = AddDays(StartDate, 3)
          /\ b.total_searches_left = 50
          /\ b.reset_date = AddDays(StartDate, 20)
          /\ Len(km_selected.considered) = 2
          /\ km_selected.key = b.api_key

\* C30: cached quota results are reused only if the last live check was less
\* than 5 minutes ago: an unforced check made 300 seconds or more after the
\* last check, however long the gap, queries every credential.
C30_CacheReusedOnlyWithinFiveMinutes ==
    km_check.gap >= 300 => km_check.live

\* within one day of the last check the comparison is right: below 300
\* seconds the cache answers, from 300 seconds on the check queries
C30_GapBelowOneDayIsCompared ==
    (km_check.gap >= 0 /\ km_check.gap < 86400) =>
        (km_check.live <=> km_check.gap >= 300)

\* an unforced check more than a day after the last one has answered from
\* the cache
C30_CacheReusedAfterOneDay ==
    /\ km_check.gap >= 86400
    /\ ~km_check.live
    /\ key_quotas # <<>>

\* --- claim formulas: next reset date ---

\* the next monthly anniversary of the registration day that lies after now:
\* this month's if still ahead, otherwise next month's, the day clamped to the
\* last day of a shorter month
NextAnniversary(reg, now) ==
    LET thisMonth == Date(now.y, now.m, Min(reg.d, DaysInMonth(now.y, now.m)))
        ny == IF now.m = 12 THEN now.y + 1 ELSE now.y
        nm == IF now.m = 12 THEN 1 ELSE now.m + 1
        nextMonth == Date(ny, nm, Min(reg.d, DaysInMonth(ny, nm)))
    IN  IF DateLT(now, thisMonth) THEN thisMonth ELSE nextMonth

\* C9: for a credential with a recorded registration date, the computed
\* next-reset date is the next monthly anniversary of the registration
\* day-of-month after the current time (this month's if still ahead, otherwise
\* next month's), clamped to the last day of a shorter month.
C9_ResetIsNextAnniversary ==
    (rs_pc \in {"checker", "done"} /\ rs_reg # NoRegistration) =>
        /\ rs_mgr = NextAnniversary(rs_reg, rs_now)
        /\ rs_checker = NextAnniversary(rs_reg, rs_now)

\* the test script's own computation is the anniversary the claim describes
C9_TestScriptAgrees ==
    rs_pc = "done" => rs_test = NextAnniversary(rs_reg, rs_now)


(***************************************************************************)
(* Traffic figures: the fill-in of a missing total / used / remaining      *)
(* Values are hundredths of a unit (round(x, 2) keeps two decimals).       *)
(***************************************************************************)

\* figures (in hundredths) and units the regular expressions can capture
TrafficVals == {0, 300, 700, 1000, 64000}
TrafficUnits == {"B", "MB", "GB", "TB"}
Figures ==
    {NoFigure} \cup [known : {TRUE}, val : TrafficVals, unit : TrafficUnits]

Abs(x) == IF x < 0 THEN -x ELSE x

\* round(n / d) on a non-negative quotient, ties to even (Python round)
RoundDivPos(n, d) ==
    LET q == n \div d
        r == n % d
    IN  IF 2 * r < d THEN q
        ELSE IF 2 * r > d THEN q + 1
        ELSE IF q % 2 = 0 THEN q ELSE q + 1

RoundDiv(n, d) == IF n >= 0 THEN RoundDivPos(n, d) ELSE -RoundDivPos(-n, d)

\* round(_convert_to_gb(val, unit), 2); the pattern's unit group is
\* (TB|GB|MB)?, anything else reads as GB
agg_to_gb(fig) ==
    IF fig.unit = "TB" THEN fig.val * 1024
    ELSE IF fig.unit = "MB" THEN RoundDiv(fig.val, 1024)
    ELSE fig.val

Known(v) == [known |-> TRUE, val |-> v, unit |-> "GB"]

\* aggregator: info after the pattern loop
agg_extracted(fig) == IF fig.known THEN Known(agg_to_gb(fig)) ELSE NoFigure

\* aggregator: the "Derive missing" step
agg_derive_missing(total, used, remaining) ==
    LET used1 == IF total.known /\ remaining.known /\ ~used.known
                 THEN Known(total.val - remaining.val) ELSE used
        remaining1 == IF total.known /\ used.known /\ ~remaining.known
                      THEN Known(total.val - used.val) ELSE remaining
    IN  [total |-> total, used |-> used1, remaining |-> remaining1]

\* extract_traffic_info_from_text on a text in which the patterns found `found`
extract_traffic_info_from_text(found) ==
    agg_derive_missing(agg_extracted(found.total), agg_extracted(found.used),
                       agg_extracted(found.remaining))

\* SubscriptionChecker._extract_traffic_info keeps the raw number of every
\* figure and the unit of the total only ('GB' when no total was found)
chk_extracted(found) ==
    LET unit == IF found.total.known THEN found.total.unit ELSE "GB"
        raw(fig) == IF fig.known THEN [known |-> TRUE, val |-> fig.val, unit |-> unit]
                    ELSE [NoFigure EXCEPT !.unit = unit]
    IN  [total |-> raw(found.total), used |-> raw(found.used),
         remaining |-> raw(found.remaining)]

\* _validate_traffic_consistency: |total - (used + remaining)| <= 0.01 * total
validate_traffic_consistency(total, used, remaining) ==
    100 * Abs(total - (used + remaining)) <= total

\* round(value * conversion_factors[unit], 2)
chk_to_gb(v, unit) ==
    IF unit = "TB" THEN v * 1024
    ELSE IF unit = "MB" THEN RoundDiv(v, 1024)
    ELSE IF unit = "B" THEN RoundDiv(v, 1024 * 1024 * 1024)
    ELSE v

\* _normalize_traffic_units
normalize_traffic_units(info) ==
    LET unit == info.total.unit
        conv(fig) == IF fig.known THEN Known(chk_to_gb(fig.val, unit))
                     ELSE NoFigure
    IN  IF unit = "GB" THEN info
        ELSE [total |-> conv(info.total), used |-> conv(info.used),
              remaining |-> conv(info.remaining)]

\* the if / elif / elif chain that computes the missing figure
chk_fill(info) ==
    LET t == info.total
        u == info.used
        r == info.remaining
        fig(v) == [known |-> TRUE, val |-> v, unit |-> t.unit]
    IN  IF t.known /\ u.known /\ ~r.known THEN [info EXCEPT !.remaining = fig(t.val - u.val)]
        ELSE IF t.known /\ r.known /\ ~u.known THEN [info EXCEPT !.used = fig(t.val - r.val)]
        ELSE IF u.known /\ r.known /\ ~t.known THEN [info EXCEPT !.total = fig(u.val + r.val)]
        ELSE info

\* SubscriptionChecker._calculate_missing_traffic_info
calculate_missing_traffic_info(info) ==
    IF /\ info.total.known /\ info.used.known /\ info.remaining.known
       /\ validate_traffic_consistency(info.total.val, info.used.val, info.remaining.val)
    THEN info
    ELSE normalize_traffic_units(chk_fill(info))

InitTraffic ==
    /\ tr_in \in [total : Figures, used : Figures, remaining : Figures]
    /\ tr_pc = "start"
    /\ tr_agg = NoTraffic
    /\ tr_chk = NoTraffic
    /\ IdleNotTraffic

\* main(): traffic = extract_traffic_info_from_text(text_preview)
AggregatorExtract ==
    /\ tr_pc = "start"
    /\ tr_agg' = extract_traffic_info_from_text(tr_in)
    /\ tr_pc' = "agg"
    /\ UNCHANGED <<tr_in, tr_chk, notTraffic>>

\* _extract_traffic_info: self._calculate_missing_traffic_info(traffic_info)
CheckerExtract ==
    /\ tr_pc = "agg"
    /\ tr_chk' = calculate_missing_traffic_info(chk_extracted(tr_in))
    /\ tr_pc' = "done"
    /\ UNCHANGED <<tr_in, tr_agg, notTraffic>>

NextTraffic ==
    \/ AggregatorExtract
    \/ CheckerExtract

SpecTraffic == InitTraffic /\ [][NextTraffic]_vars

\* --- claim formulas: traffic identity ---

KnownCount(info) ==
    Cardinality({ f \in {"total", "used", "remaining"} : info[f].known })

\* all three figures are present and total = used + remaining to within one
\* hundredth per rounded figure
IdentityHolds(info) ==
    /\ info.total.known /\ info.used.known /\ info.remaining.known
    /\ Abs(info.total.val - (info.used.val + info.remaining.val)) <= 2

\* C8: whenever exactly two of {total, used, remaining} are extracted for a
\* source, the engine fills in the missing third value, whichever of the
\* three it is, so that total = used + remaining within rounding tolerance.
C8_MissingFigureFilled ==
    /\ (tr_pc \in {"agg", "done"} /\ KnownCount(tr_in) = 2) => IdentityHolds(tr_agg)
    /\ (tr_pc = "done" /\ KnownCount(tr_in) = 2) => IdentityHolds(tr_chk)

\* what the aggregator does do: it fills used or remaining when the total is
\* one of the two figures found
C8_AggregatorFillsWithTotal ==
    (tr_pc \in {"agg", "done"} /\ KnownCount(tr_in) = 2 /\ tr_in.total.known) =>
        IdentityHolds(tr_agg)

\* the checker's computation fills whichever figure is missing
C8_CheckerFills ==
    (tr_pc = "done" /\ KnownCount(tr_in) = 2) => IdentityHolds(tr_chk)


\* --- claim formulas: source state tracker ---

\* the wait of the spec, in seconds: 15 minutes for the first signal, doubled
\* by every further signal, never more than 24 hours
RECURSIVE SpecWaitSeconds(_)
SpecWaitSeconds(n) ==
    IF n <= 1 THEN 15 * 60 ELSE Min(2 * SpecWaitSeconds(n - 1), 24 * 60 * 60)

\* the wait an entry records: next-allowed minus the time of the signal
AppliedWait(info) == info.next_allowed_at - info.last_at

\* C1: each rate-limit signal recorded for a URL increments that URL's
\* failure count by exactly 1 and sets next-allowed = now + min(15 min *
\* 2^(count-1), 24 h), count being the count after the increment (first
\* signal: now + 15 min, second consecutive signal: now + 30 min).
C1_SignalSetsBackoff ==
    [][\A u \in URLS :
          rate_state'[u] # rate_state[u] =>
             /\ rate_state'[u].hits = rate_state[u].hits + 1
             /\ rate_state'[u].last_at = now_ts
             /\ rate_state'[u].next_allowed_at
                    = now_ts + SpecWaitSeconds(rate_state'[u].hits)
             /\ (rate_state'[u].hits = 1 =>
                    rate_state'[u].next_allowed_at = now_ts + 15 * 60)
             /\ (rate_state'[u].hits = 2 =>
                    rate_state'[u].next_allowed_at = now_ts + 30 * 60)]_vars

C1_Witness ==
    \E u \in URLS :
        /\ rate_state[u].hits = 2
        /\ rate_state[u].last_at > 0
        /\ rate_state[u].next_allowed_at = rate_state[u].last_at + 30 * 60

\* C5: for every URL, the wait applied by the (n+1)-th signal is at least the
\* wait applied by the n-th signal, and every wait is at most 24 hours.
C5_WaitMonotoneCapped ==
    /\ [](\A u \in URLS :
             rate_state[u] # NoInfo => AppliedWait(rate_state[u]) <= 24 * 60 * 60)
    /\ [][\A u \in URLS :
             (rate_state'[u] # rate_state[u] /\ rate_state[u] # NoInfo) =>
                 AppliedWait(rate_state'[u]) >= AppliedWait(rate_state[u])]_vars

\* the cap is reached and held: two successive signals both waited 24 hours
C5_Witness ==
    \E u \in URLS :
        /\ rate_state[u].hits = 9
        /\ AppliedWait(rate_state[u]) = 24 * 60 * 60

\* C14: the LIMITED -> ACTIVE transition is purely time-based: the tracker
\* says skip exactly while now < next-allowed, the passing of time changes
\* no record, and a signal that arrives when the URL is ACTIVE again
\* continues the curve: the count goes up by one and the wait is twice the
\* previous one, up to 24 hours, instead of restarting at 15 minutes.
C14_ActiveAgainKeepsCount ==
    /\ [](\A u \in URLS :
             should_skip_due_to_backoff(rate_state, u, now_ts)
                 <=> (rate_state[u] # NoInfo /\ now_ts < rate_state[u].next_allowed_at))
    /\ [][\A u \in URLS :
             /\ now_ts' # now_ts => rate_state'[u] = rate_state[u]
             /\ (/\ rate_state'[u] # rate_state[u]
                 /\ rate_state[u] # NoInfo
                 /\ ~should_skip_due_to_backoff(rate_state, u, now_ts)) =>
                    /\ rate_state'[u].hits = rate_state[u].hits + 1
                    /\ AppliedWait(rate_state'[u])
                           = Min(2 * AppliedWait(rate_state[u]), 24 * 60 * 60)]_vars

\* u1 is ACTIVE again at the very second its second wait ends (now =
\* next-allowed), the second wait having been 30 minutes, and its count is
\* still 2
C14_Witness ==
    /\ rate_state["u1"].hits = 2
    /\ AppliedWait(rate_state["u1"]) = 30 * 60
    /\ now_ts = rate_state["u1"].next_allowed_at
    /\ ~should_skip_due_to_backoff(rate_state, "u1", now_ts)

(***************************************************************************)
(* Aggregation run (aggregator_cli.py main): text helpers and tables       *)
(*                                                                         *)
(* A text is a sequence of characters, one string per character.  A        *)
(* character outside ASCII is written as one token: RI_x is the regional   *)
(* indicator symbol of the letter x (two of them make a flag), zh_x is one *)
(* CJK character.                                                          *)
(***************************************************************************)

UPPER ==
    <<"A", "B", "C", "D", "E", "F", "G", "H", "I", "J", "K", "L", "M",
      "N", "O", "P", "Q", "R", "S", "T", "U", "V", "W", "X", "Y", "Z">>
LOWER ==
    <<"a", "b", "c", "d", "e", "f", "g", "h", "i", "j", "k", "l", "m",
      "n", "o", "p", "q", "r", "s", "t", "u", "v", "w", "x", "y", "z">>

LowerChar(c) ==
    IF \E i \in 1..Len(UPPER) : UPPER[i] = c
    THEN LOWER[CHOOSE i \in 1..Len(UPPER) : UPPER[i] = c]
    ELSE c

\* str.lower()
Lower(s) == [i \in 1..Len(s) |-> LowerChar(s[i])]

\* str.startswith(p)
StartsWith(s, p) == Len(s) >= Len(p) /\ SubSeq(s, 1, Len(p)) = p

\* p in s
Contains(s, p) ==
    \E i \in 1..(Len(s) - Len(p) + 1) : SubSeq(s, i, i + Len(p) - 1) = p

\* str.strip() on a line (the only whitespace inside a line is the blank)
RECURSIVE Strip(_)
Strip(s) ==
    IF s = <<>> THEN s
    ELSE IF Head(s) = " " THEN Strip(Tail(s))
    ELSE IF s[Len(s)] = " " THEN Strip(SubSeq(s, 1, Len(s) - 1))
    ELSE s

PROTOCOL_PREFIXES ==
    << <<"v", "m", "e", "s", "s", ":", "/", "/">>,
       <<"v", "l", "e", "s", "s", ":", "/", "/">>,
       <<"t", "r", "o", "j", "a", "n", ":", "/", "/">>,
       <<"s", "s", ":", "/", "/">>,
       <<"s", "s", "r", ":", "/", "/">>,
       <<"h", "y", "s", "t", "e", "r", "i", "a", "2", ":", "/", "/">> >>

\* the list classify_protocol walks, in its order
CLASSIFY_ORDER == <<"ss", "vmess", "vless", "trojan", "hysteria2", "ssr">>

\* f"{p}://"
SchemeOf(p) ==
    IF p = "ss" THEN <<"s", "s", ":", "/", "/">>
    ELSE IF p = "vmess" THEN <<"v", "m", "e", "s", "s", ":", "/", "/">>
    ELSE IF p = "vless" THEN <<"v", "l", "e", "s", "s", ":", "/", "/">>
    ELSE IF p = "trojan" THEN <<"t", "r", "o", "j", "a", "n", ":", "/", "/">>
    ELSE IF p = "hysteria2" THEN <<"h", "y", "s", "t", "e", "r", "i", "a", "2", ":", "/", "/">>
    ELSE <<"s", "s", "r", ":", "/", "/">>

RATE_LIMIT_STATUS == {403, 429, 503, 509}

RATE_LIMIT_BODY_HINTS ==
    << <<"r", "a", "t", "e", " ", "l", "i", "m", "i", "t">>,
       <<"t", "o", "o", " ", "m", "a", "n", "y", " ", "r", "e", "q",
          "u", "e", "s", "t", "s">>,
       <<"q", "u", "o", "t", "a", " ", "e", "x", "c", "e", "e", "d",
          "e", "d">>,
       <<"e", "x", "c", "e", "e", "d", "e", "d">>,
       <<"b", "a", "n", "d", "w", "i", "d", "t", "h", " ", "e", "x",
          "c", "e", "e", "d", "e", "d">>,
       <<"zh_liu", "zh_liang", "zh_yi", "zh_yong", "zh_jin">>,
       <<"zh_chao", "zh_chu", "zh_pei", "zh_e">>,
       <<"zh_qing", "zh_qiu", "zh_guo4", "zh_duo">> >>

\* REGION_KEYWORDS, in dict order
REGION_KEYWORDS ==
    << [region |-> "hk", keys |->
           << <<"h", "k">>,
              <<"h", "o", "n", "g", "k", "o", "n", "g">>,
              <<"h", "o", "n", "g", " ", "k", "o", "n", "g">>,
              <<"RI_H", "RI_K">>,
              <<"zh_xiang", "zh_gang">>,
              <<"h", "k", "g">> >>],
       [region |-> "tw", keys |->
           << <<"t", "w">>,
              <<"t", "a", "i", "w", "a", "n">>,
              <<"RI_T", "RI_W">>,
              <<"zh_tai", "zh_wan">>,
              <<"zh_tai_trad", "zh_wan_trad">>,
              <<"t", "a", "i", "p", "e", "i">>,
              <<"zh_tai", "zh_bei">> >>],
       [region |-> "sg", keys |->
           << <<"s", "g">>,
              <<"s", "i", "n", "g", "a", "p", "o", "r", "e">>,
              <<"RI_S", "RI_G">>,
              <<"zh_xin", "zh_jia", "zh_po">>,
              <<"s", "g", "p">> >>],
       [region |-> "us", keys |->
           << <<"u", "s">>,
              <<"u", "n", "i", "t", "e", "d", " ", "s", "t", "a",
                  "t", "e", "s">>,
              <<"u", "s", "a">>,
              <<"RI_U", "RI_S">>,
              <<"zh_mei", "zh_guo">>,
              <<"zh_mei", "zh_guo_trad">>,
              <<"a", "m", "e", "r", "i", "c", "a">>,
              <<"a", "m", "e", "r", "i", "c", "a", "n">> >>],
       [region |-> "kr", keys |->
           << <<"k", "r">>,
              <<"k", "o", "r", "e", "a">>,
              <<"s", "o", "u", "t", "h", " ", "k", "o", "r", "e",
                  "a">>,
              <<"RI_K", "RI_R">>,
              <<"zh_han", "zh_guo">>,
              <<"zh_han_trad", "zh_guo_trad">>,
              <<"s", "e", "o", "u", "l">>,
              <<"zh_shou", "zh_er">>,
              <<"zh_shou", "zh_er_trad">> >>],
       [region |-> "jp", keys |->
           << <<"j", "p">>,
              <<"j", "a", "p", "a", "n">>,
              <<"RI_J", "RI_P">>,
              <<"zh_ri", "zh_ben">>,
              <<"t", "o", "k", "y", "o">>,
              <<"o", "s", "a", "k", "a">>,
              <<"zh_dong", "zh_jing">>,
              <<"zh_da", "zh_ban">> >>],
       [region |-> "eu", keys |->
           << <<"e", "u">>,
              <<"e", "u", "r", "o", "p", "e">>,
              <<"RI_E", "RI_U">>,
              <<"zh_ou">>,
              <<"zh_ou_trad">>,
              <<"g", "e", "r", "m", "a", "n", "y">>,
              <<"f", "r", "a", "n", "c", "e">>,
              <<"u", "k">>,
              <<"n", "e", "t", "h", "e", "r", "l", "a", "n", "d",
                  "s">> >>] >>

\* the lines and messages the modelled sources answer with
\* "ss://a#HK-1"
n_ss_hk ==
    <<"s", "s", ":", "/", "/", "a", "#", "H", "K", "-", "1">>
\* " ss://a#HK-1 "
n_ss_hk_padded ==
    <<" ", "s", "s", ":", "/", "/", "a", "#", "H", "K", "-", "1", " ">>
\* "vmess://b#Tokyo"
n_vmess_tokyo ==
    <<"v", "m", "e", "s", "s", ":", "/", "/", "b", "#", "T", "o", "k",
    "y", "o">>
\* "ssr://c"
n_ssr_plain ==
    <<"s", "s", "r", ":", "/", "/", "c">>
\* "trojan://d#free-node"
n_trojan_free ==
    <<"t", "r", "o", "j", "a", "n", ":", "/", "/", "d", "#", "f", "r",
    "e", "e", "-", "n", "o", "d", "e">>
\* "vless://e#Russia"
n_vless_russia ==
    <<"v", "l", "e", "s", "s", ":", "/", "/", "e", "#", "R", "u", "s",
    "s", "i", "a">>
\* "hysteria2://f#UK"
n_hy2_uk ==
    <<"h", "y", "s", "t", "e", "r", "i", "a", "2", ":", "/", "/", "f",
    "#", "U", "K">>
\* "trojan://p@plus.io"
n_trojan_plus ==
    <<"t", "r", "o", "j", "a", "n", ":", "/", "/", "p", "@", "p", "l",
    "u", "s", ".", "i", "o">>
\* "ss://g#jp-hk"
n_ss_jp_hk ==
    <<"s", "s", ":", "/", "/", "g", "#", "j", "p", "-", "h", "k">>
\* "hello"
junk_text ==
    <<"h", "e", "l", "l", "o">>
\* "see ss://a"
junk_embedded ==
    <<"s", "e", "e", " ", "s", "s", ":", "/", "/", "a">>
\* "traffic exceeded"
text_exceeded ==
    <<"t", "r", "a", "f", "f", "i", "c", " ", "e", "x", "c", "e", "e",
    "d", "e", "d">>
\* "Too Many Requests"
err_too_many ==
    <<"T", "o", "o", " ", "M", "a", "n", "y", " ", "R", "e", "q", "u",
    "e", "s", "t", "s">>
\* "timed out"
err_timed_out ==
    <<"t", "i", "m", "e", "d", " ", "o", "u", "t">>
\* "trojan://CCC#free-node"
n_trojan_ccc_free ==
    <<"t", "r", "o", "j", "a", "n", ":", "/", "/", "C", "C", "C", "#", "f",
      "r", "e", "e", "-", "n", "o", "d", "e">>
\* "ss://k#%46ree"
n_ss_pct_free ==
    <<"s", "s", ":", "/", "/", "k", "#", "%", "4", "6", "r", "e", "e">>
\* "ss://h#%E5%85%8D%E8%B4%B9", the name being the percent-encoded
\* UTF-8 of zh_mian zh_fei
n_ss_pct_mianfei ==
    <<"s", "s", ":", "/", "/", "h", "#", "%", "E", "5", "%", "8", "5", "%",
      "8", "D", "%", "E", "8", "%", "B", "4", "%", "B", "9">>
\* "vmess://m#JP-9"
n_vmess_jp ==
    <<"v", "m", "e", "s", "s", ":", "/", "/", "m", "#", "J", "P", "-", "9">>
\* base64 of the four lines above, each followed by a line feed
b64_four_nodes ==
    <<"d", "H", "J", "v", "a", "m", "F", "u", "O", "i", "8", "v", "Q", "0",
      "N", "D", "I", "2", "Z", "y", "Z", "W", "U", "t", "b", "m", "9", "k",
      "Z", "Q", "p", "z", "c", "z", "o", "v", "L", "2", "s", "j", "J", "T",
      "Q", "2", "c", "m", "V", "l", "C", "n", "N", "z", "O", "i", "8", "v",
      "a", "C", "M", "l", "R", "T", "U", "l", "O", "D", "U", "l", "O", "E",
      "Q", "l", "R", "T", "g", "l", "Q", "j", "Q", "l", "Q", "j", "k", "K",
      "d", "m", "1", "l", "c", "3", "M", "6", "L", "y", "9", "t", "I", "0",
      "p", "Q", "L", "T", "k", "K">>

(***************************************************************************)
(* Aggregation run: bytes and texts (base64, UTF-8, percent-encoding)      *)
(*                                                                         *)
(* Inside a text that is one sequence of characters, "LF" and "CR" are the *)
(* line breaks and "ctl" is any other control character.                   *)
(***************************************************************************)

\* chr(32) .. chr(126); "grave" is chr(96)
ASCII ==
    <<" ", "!", "\"", "#", "$", "%", "&", "'", "(", ")", "*", "+", ",",
      "-", ".", "/", "0", "1", "2", "3", "4", "5", "6", "7", "8", "9", ":",
      ";", "<", "=", ">", "?", "@", "A", "B", "C", "D", "E", "F", "G", "H",
      "I", "J", "K", "L", "M", "N", "O", "P", "Q", "R", "S", "T", "U", "V",
      "W", "X", "Y", "Z", "[", "\\", "]", "^", "_", "grave", "a", "b", "c",
      "d", "e", "f", "g", "h", "i", "j", "k", "l", "m", "n", "o", "p", "q",
      "r", "s", "t", "u", "v", "w", "x", "y", "z", "{", "|", "}", "~">>

\* chr(b) of a byte below 0x80
Chr(b) ==
    IF b \in 32..126 THEN ASCII[b - 31]
    ELSE IF b = 10 THEN "LF"
    ELSE IF b = 13 THEN "CR"
    ELSE "ctl"

SetMin(S) == CHOOSE x \in S : \A y \in S : x <= y

\* the base64 alphabet, in the order of its values 0..63
B64_ALPHABET ==
    UPPER \o LOWER \o <<"0", "1", "2", "3", "4", "5", "6", "7", "8", "9", "+", "/">>

IsB64(c) == \E i \in 1..Len(B64_ALPHABET) : B64_ALPHABET[i] = c
B64Val(c) == (CHOOSE i \in 1..Len(B64_ALPHABET) : B64_ALPHABET[i] = c) - 1

\* safe_b64_decode: data += "=" * padding
Padded(s) == s \o [i \in 1..((4 - (Len(s) % 4)) % 4) |-> "="]

\* base64.b64decode(validate=False) skips every character outside the
\* alphabet and stops at the pad character that completes a group
DataBefore(s, i) == Cardinality({k \in 1..(i - 1) : IsB64(s[k])})
PadsAt(s, i) ==
    Cardinality({k \in 1..i : s[k] = "=" /\ \A m \in (k + 1)..(i - 1) : ~IsB64(s[m])})
PadStops(s) ==
    {i \in 1..Len(s) :
        /\ s[i] = "="
        /\ (DataBefore(s, i) % 4) >= 2
        /\ (DataBefore(s, i) % 4) + PadsAt(s, i) >= 4}
DataEnd(s) == IF PadStops(s) = {} THEN Len(s) + 1 ELSE SetMin(PadStops(s))
B64Data(s) == SelectSeq(SubSeq(s, 1, DataEnd(s) - 1), IsB64)
Sextets(s) == [k \in 1..Len(B64Data(s)) |-> B64Val(B64Data(s)[k])]

\* the bytes of a sequence of 6-bit values: three per full group of four,
\* one or two for a last group of two or three
SextetByte(d, k) ==
    IF (k - 1) % 3 = 0
    THEN d[4 * ((k - 1) \div 3) + 1] * 4 + (d[4 * ((k - 1) \div 3) + 2] \div 16)
    ELSE IF (k - 1) % 3 = 1
    THEN (d[4 * ((k - 1) \div 3) + 2] % 16) * 16 + (d[4 * ((k - 1) \div 3) + 3] \div 4)
    ELSE (d[4 * ((k - 1) \div 3) + 3] % 4) * 64 + d[4 * ((k - 1) \div 3) + 4]
BytesOf(d) ==
    [k \in 1..((Len(d) \div 4) * 3 + (IF (Len(d) % 4) >= 2 THEN (Len(d) % 4) - 1 ELSE 0)) |->
        SextetByte(d, k)]

\* base64.b64decode(data, validate=False): binascii.Error when data
\* characters are left over without the padding that completes them
b64decode(s) ==
    IF PadStops(s) = {} /\ (Len(B64Data(s)) % 4) # 0
    THEN [ok |-> FALSE, bytes |-> <<>>]
    ELSE [ok |-> TRUE, bytes |-> BytesOf(Sextets(s))]

\* bytes.decode("utf-8", errors="ignore") of bytes that hold no valid
\* multi-byte sequence: every byte from 0x80 on is dropped
LowBytes(bytes) == SelectSeq(bytes, LAMBDA b : b < 128)
Utf8Ignore(bytes) == [k \in 1..Len(LowBytes(bytes)) |-> Chr(LowBytes(bytes)[k])]

\* safe_b64_decode; ok = FALSE stands for None
safe_b64_decode(data) ==
    IF b64decode(Padded(data)).ok
    THEN [ok |-> TRUE, text |-> Utf8Ignore(b64decode(Padded(data)).bytes)]
    ELSE [ok |-> FALSE, text |-> <<>>]

\* the characters of a body given as the sequence of its lines
RECURSIVE JoinLines(_)
JoinLines(lines) ==
    IF lines = <<>> THEN <<>>
    ELSE IF Len(lines) = 1 THEN lines[1]
    ELSE lines[1] \o <<"LF">> \o JoinLines(Tail(lines))

\* str.strip() on a text with line breaks
IsSpace(c) == c \in {" ", "LF", "CR"}
StripText(s) ==
    IF \A i \in 1..Len(s) : IsSpace(s[i]) THEN <<>>
    ELSE SubSeq(s, SetMin({i \in 1..Len(s) : ~IsSpace(s[i])}),
                   Len(s) + 1 - SetMin({j \in 1..Len(s) : ~IsSpace(s[Len(s) + 1 - j])}))

\* text.replace("\r", "\n").split("\n")
Breaks(s) == {i \in 1..Len(s) : s[i] \in {"LF", "CR"}}
LineStart(s, k) ==
    IF k = 1 THEN 1
    ELSE 1 + CHOOSE i \in Breaks(s) : Cardinality({b \in Breaks(s) : b <= i}) = k - 1
LineEnd(s, k) ==
    IF k = Cardinality(Breaks(s)) + 1 THEN Len(s)
    ELSE (CHOOSE i \in Breaks(s) : Cardinality({b \in Breaks(s) : b <= i}) = k) - 1
SplitLines(s) ==
    [k \in 1..(Cardinality(Breaks(s)) + 1) |-> SubSeq(s, LineStart(s, k), LineEnd(s, k))]

\* the hexadecimal digits, in the order of their values 0..15
HEXDIGITS ==
    <<"0", "1", "2", "3", "4", "5", "6", "7", "8", "9", "a", "b", "c", "d", "e", "f">>
IsHex(c) == \E i \in 1..Len(HEXDIGITS) : HEXDIGITS[i] = LowerChar(c)
HexVal(c) == (CHOOSE i \in 1..Len(HEXDIGITS) : HEXDIGITS[i] = LowerChar(c)) - 1

\* the three-byte UTF-8 sequences of the CJK characters written as tokens
UTF8_CJK ==
    << [bytes |-> <<228, 184, 180>>, char |-> "zh_lin"],
       [bytes |-> <<228, 189, 153>>, char |-> "zh_yu"],
       [bytes |-> <<229, 133, 141>>, char |-> "zh_mian"],
       [bytes |-> <<229, 133, 172>>, char |-> "zh_gong"],
       [bytes |-> <<229, 136, 176>>, char |-> "zh_dao"],
       [bytes |-> <<229, 137, 169>>, char |-> "zh_sheng"],
       [bytes |-> <<230, 151, 165>>, char |-> "zh_ri"],
       [bytes |-> <<230, 151, 182>>, char |-> "zh_shi_time"],
       [bytes |-> <<230, 156, 159>>, char |-> "zh_qi"],
       [bytes |-> <<230, 156, 172>>, char |-> "zh_ben"],
       [bytes |-> <<230, 181, 139>>, char |-> "zh_ce"],
       [bytes |-> <<231, 130, 185>>, char |-> "zh_dian"],
       [bytes |-> <<231, 148, 168>>, char |-> "zh_yong"],
       [bytes |-> <<231, 155, 138>>, char |-> "zh_yi_benefit"],
       [bytes |-> <<232, 138, 130>>, char |-> "zh_jie"],
       [bytes |-> <<232, 175, 149>>, char |-> "zh_shi_try"],
       [bytes |-> <<232, 180, 185>>, char |-> "zh_fei"] >>

\* urllib.parse.unquote_to_bytes: %XX with two hexadecimal digits is one
\* byte, every other character stands for itself
PctStarts(s) ==
    {i \in 1..(Len(s) - 2) : s[i] = "%" /\ IsHex(s[i + 1]) /\ IsHex(s[i + 2])}
PctKept(s) ==
    SelectSeq([i \in 1..Len(s) |-> i],
              LAMBDA i : (i - 1) \notin PctStarts(s) /\ (i - 2) \notin PctStarts(s))
unquote_to_bytes(s) ==
    [k \in 1..Len(PctKept(s)) |->
        IF PctKept(s)[k] \in PctStarts(s)
        THEN [esc |-> TRUE, char |-> "",
              byte |-> 16 * HexVal(s[PctKept(s)[k] + 1]) + HexVal(s[PctKept(s)[k] + 2])]
        ELSE [esc |-> FALSE, char |-> s[PctKept(s)[k]], byte |-> 0]]

\* bytes.decode("utf-8", errors="replace") of the unquoted bytes: a lead
\* byte with its continuation bytes is one character ("u_other" when it
\* is none of UTF8_CJK), any other byte from 0x80 on is U+FFFD
IsCont(items, k) ==
    k <= Len(items) /\ items[k].esc /\ items[k].byte \in 128..191
SeqLen(items, k) ==
    IF ~items[k].esc \/ items[k].byte < 128 THEN 1
    ELSE IF items[k].byte \in 194..223 /\ IsCont(items, k + 1) THEN 2
    ELSE IF items[k].byte \in 224..239 /\ IsCont(items, k + 1) /\ IsCont(items, k + 2) THEN 3
    ELSE IF /\ items[k].byte \in 240..244
            /\ IsCont(items, k + 1) /\ IsCont(items, k + 2) /\ IsCont(items, k + 3) THEN 4
    ELSE 1
Covered(items, k) ==
    \E j \in 1..(k - 1) : items[j].esc /\ items[j].byte >= 192 /\ j + SeqLen(items, j) > k
CharStarts(items) ==
    SelectSeq([k \in 1..Len(items) |-> k], LAMBDA k : ~Covered(items, k))
CjkOf(items, k) ==
    IF \E t \in 1..Len(UTF8_CJK) :
           UTF8_CJK[t].bytes = <<items[k].byte, items[k + 1].byte, items[k + 2].byte>>
    THEN UTF8_CJK[CHOOSE t \in 1..Len(UTF8_CJK) :
             UTF8_CJK[t].bytes = <<items[k].byte, items[k + 1].byte, items[k + 2].byte>>].char
    ELSE "u_other"
CharAt(items, k) ==
    IF ~items[k].esc THEN items[k].char
    ELSE IF items[k].byte < 128 THEN Chr(items[k].byte)
    ELSE IF SeqLen(items, k) = 3 THEN CjkOf(items, k)
    ELSE IF SeqLen(items, k) > 1 THEN "u_other"
    ELSE "U_FFFD"
Utf8Replace(items) ==
    [n \in 1..Len(CharStarts(items)) |-> CharAt(items, CharStarts(items)[n])]

\* urllib.parse.unquote
unquote(s) == Utf8Replace(unquote_to_bytes(s))

\* exclude_keywords of _is_good_node, in its order
exclude_keywords ==
    << <<"zh_gong", "zh_yi_benefit">>,
       <<"zh_mian", "zh_fei">>,
       <<"zh_ce", "zh_shi_try">>,
       <<"t", "e", "s", "t">>,
       <<"f", "r", "e", "e">>,
       <<"p", "u", "b", "l", "i", "c">>,
       <<"d", "e", "m", "o">>,
       <<"zh_shi_try", "zh_yong">>,
       <<"t", "r", "i", "a", "l">>,
       <<"zh_lin", "zh_shi_time">>,
       <<"t", "e", "m", "p">>,
       <<"zh_lin", "zh_shi_time", "zh_jie", "zh_dian">>,
       <<"zh_ce", "zh_shi_try", "zh_jie", "zh_dian">>,
       <<"zh_mian", "zh_fei", "zh_jie", "zh_dian">>,
       <<"zh_gong", "zh_yi_benefit", "zh_jie", "zh_dian">>,
       <<"zh_shi_try", "zh_yong", "zh_jie", "zh_dian">>,
       <<"d", "e", "m", "o", "zh_jie", "zh_dian">>,
       <<"zh_sheng", "zh_yu">>,
       <<"zh_dao", "zh_qi">>,
       <<"e", "x", "p", "i", "r", "e">>,
       <<"e", "x", "p", "i", "r", "e", "d">>,
       <<"e", "x", "p", "i", "r", "i", "n", "g">>,
       <<"e", "x", "p", "i", "r", "y">>,
       <<"l", "i", "m", "i", "t", "e", "d">>,
       <<"l", "i", "m", "i", "t">>,
       <<"q", "u", "o", "t", "a">>,
       <<"q", "u", "o", "t", "a", " ", "e", "x", "c", "e", "e", "d", "e",
         "d">>,
       <<"o", "v", "e", "r", " ", "q", "u", "o", "t", "a">>,
       <<"l", "o", "w", " ", "q", "u", "a", "l", "i", "t", "y">>,
       <<"p", "o", "o", "r">>,
       <<"b", "a", "d">>,
       <<"s", "l", "o", "w">>,
       <<"u", "n", "s", "t", "a", "b", "l", "e">> >>

\* the schemes _is_good_node accepts without counting indicators
GOOD_SCHEMES ==
    << <<"s", "s", ":", "/", "/">>,
       <<"s", "s", "r", ":", "/", "/">>,
       <<"v", "m", "e", "s", "s", ":", "/", "/">>,
       <<"v", "l", "e", "s", "s", ":", "/", "/">>,
       <<"t", "r", "o", "j", "a", "n", ":", "/", "/">>,
       <<"h", "y", "s", "t", "e", "r", "i", "a", ":", "/", "/">>,
       <<"h", "y", "s", "t", "e", "r", "i", "a", "2", ":", "/", "/">> >>

\* node_indicators of _is_good_node
node_indicators ==
    << <<"s", "e", "r", "v", "e", "r", "=">>,
       <<"p", "o", "r", "t", "=">>,
       <<"p", "a", "s", "s", "w", "o", "r", "d", "=">>,
       <<"m", "e", "t", "h", "o", "d", "=">>,
       <<"p", "r", "o", "t", "o", "c", "o", "l", "=">>,
       <<"o", "b", "f", "s", "=">>,
       <<"o", "b", "f", "s", "_", "p", "a", "r", "a", "m", "=">>,
       <<"r", "e", "m", "a", "r", "k", "s", "=">>,
       <<"g", "r", "o", "u", "p", "=">>,
       <<"n", "a", "m", "e", "=">>,
       <<"t", "y", "p", "e", "=">>,
       <<"u", "u", "i", "d", "=">>,
       <<"p", "a", "t", "h", "=">>,
       <<"h", "o", "s", "t", "=">> >>

HasKeyword(low) ==
    \E k \in 1..Len(exclude_keywords) : Contains(low, exclude_keywords[k])
HasGoodScheme(line) ==
    \E k \in 1..Len(GOOD_SCHEMES) : Contains(line, GOOD_SCHEMES[k])
IndicatorCount(line) ==
    Cardinality({k \in 1..Len(node_indicators) : Contains(line, node_indicators[k])})

\* mutant: the keywords are matched without reversing the percent-encoding
_is_good_node_NoUnquote(node_line) ==
    /\ node_line # <<>>
    /\ ~HasKeyword(Lower(node_line))
    /\ (HasGoodScheme(node_line) \/ IndicatorCount(node_line) >= 2)

\* _is_good_node
_is_good_node(node_line) ==
    /\ node_line # <<>>
    /\ ~HasKeyword(Lower(unquote(node_line)))
    /\ (HasGoodScheme(node_line) \/ IndicatorCount(node_line) >= 2)

(***************************************************************************)
(* Aggregation run: pure functions of aggregator_cli.py                    *)
(***************************************************************************)

StripAll(text) == [i \in 1..Len(text) |-> Strip(text[i])]

\* any(p in text for p in PROTOCOL_PREFIXES) on one sequence of characters
HasPrefix(s) == \E j \in 1..Len(PROTOCOL_PREFIXES) : Contains(s, PROTOCOL_PREFIXES[j])

\* the base64 branch: the decoded text, split, when it holds a prefix
DecodedLines(decoded) ==
    IF decoded.ok /\ decoded.text # <<>> /\ HasPrefix(decoded.text)
    THEN SelectSeq(StripAll(SplitLines(decoded.text)), LAMBDA ln : ln # <<>>)
    ELSE <<>>

\* split_subscription_content_to_lines on a body given as the sequence of
\* its lines: the lines themselves when one of them holds a protocol
\* prefix, the lines of the base64-decoded body otherwise
split_subscription_content_to_lines(text) ==
    IF \E i \in 1..Len(text) : HasPrefix(text[i])
    THEN SelectSeq(StripAll(text), LAMBDA ln : ln # <<>>)
    ELSE DecodedLines(safe_b64_decode(StripText(JoinLines(text))))

\* normalize_node_line returns something other than None
IsNodeLine(line) ==
    /\ Strip(line) # <<>>
    /\ \E j \in 1..Len(PROTOCOL_PREFIXES) : StartsWith(Strip(line), PROTOCOL_PREFIXES[j])

\* the lines of a body that normalize_node_line keeps, normalised
NodesOf(text) ==
    SelectSeq(StripAll(split_subscription_content_to_lines(text)), IsNodeLine)

\* classify_protocol; "" stands for None
classify_protocol(line) ==
    IF \E i \in 1..Len(CLASSIFY_ORDER) : StartsWith(line, SchemeOf(CLASSIFY_ORDER[i]))
    THEN LET first == CHOOSE i \in 1..Len(CLASSIFY_ORDER) :
                          /\ StartsWith(line, SchemeOf(CLASSIFY_ORDER[i]))
                          /\ \A k \in 1..(i - 1) :
                                 ~StartsWith(line, SchemeOf(CLASSIFY_ORDER[k]))
         IN  CLASSIFY_ORDER[first]
    ELSE ""

\* line.split("#", 1)[1] when the line holds a '#', the whole line otherwise
DisplayOf(line) ==
    IF \E i \in 1..Len(line) : line[i] = "#"
    THEN LET first == CHOOSE i \in 1..Len(line) :
                          line[i] = "#" /\ \A k \in 1..(i - 1) : line[k] # "#"
         IN  SubSeq(line, first + 1, Len(line))
    ELSE line

\* some keyword of the idx-th region occurs in the lowered text
RegionHit(idx, low) ==
    \E k \in 1..Len(REGION_KEYWORDS[idx].keys) :
        Contains(low, REGION_KEYWORDS[idx].keys[k])

\* classify_region_heuristic; "" stands for None
classify_region_heuristic(line) ==
    LET low == Lower(DisplayOf(line))
    IN  IF \E i \in 1..Len(REGION_KEYWORDS) : RegionHit(i, low)
        THEN LET first == CHOOSE i \in 1..Len(REGION_KEYWORDS) :
                              /\ RegionHit(i, low)
                              /\ \A k \in 1..(i - 1) : ~RegionHit(k, low)
             IN  REGION_KEYWORDS[first].region
        ELSE ""

\* any(h in text for h in RATE_LIMIT_BODY_HINTS) on an already lowered text
HasRateLimitHint(low) ==
    \E j \in 1..Len(RATE_LIMIT_BODY_HINTS) : Contains(low, RATE_LIMIT_BODY_HINTS[j])

\* mutant: a later occurrence replaces the earlier one (last-seen-wins)
RECURSIVE dedup_nodes_LastWins(_)
dedup_nodes_LastWins(nodes) ==
    IF nodes = <<>> THEN <<>>
    ELSE IF Head(nodes) \in SeqRange(Tail(nodes))
         THEN dedup_nodes_LastWins(Tail(nodes))
         ELSE <<Head(nodes)>> \o dedup_nodes_LastWins(Tail(nodes))

\* list(dict.fromkeys(nodes)): keys keep the position of their first insertion
RECURSIVE dedup_nodes(_)
dedup_nodes(nodes) ==
    IF nodes = <<>> THEN <<>>
    ELSE LET kept == dedup_nodes(SubSeq(nodes, 1, Len(nodes) - 1))
             last == nodes[Len(nodes)]
         IN  IF last \in SeqRange(kept) THEN kept ELSE Append(kept, last)

\* "Deduplicate and cap": args.max None or 0 means no cap
dedup_and_cap(nodes, a) ==
    LET deduped == IF a.dedup THEN dedup_nodes(nodes) ELSE nodes
    IN  IF a.max # 0 /\ Len(deduped) > a.max THEN SubSeq(deduped, 1, a.max)
        ELSE deduped

\* mutant: the counts are the change in list length
delta_counts_ByLength(current, previous) ==
    [new |-> IF Len(current) > Len(previous) THEN Len(current) - Len(previous) ELSE 0,
     removed |-> IF Len(previous) > Len(current) THEN Len(previous) - Len(current) ELSE 0]

\* sources_new, sources_removed
delta_counts(current, previous) ==
    [new |-> Cardinality(SeqRange(current) \ SeqRange(previous)),
     removed |-> Cardinality(SeqRange(previous) \ SeqRange(current))]

(***************************************************************************)
(* Aggregation run: what the sources answer                                *)
(***************************************************************************)

\* bounds
MaxRuns == 2

\* the normalised subscription URLs of the run, in sort order
URL_ORDER == <<"X", "Y", "Z">>
RunURLS == SeqRange(URL_ORDER)

\* the sources that answer with rate-limit signals
THROTTLED == {"X"}

\* seconds between the start of two runs
RunGaps == {600, 3600}

\* the command lines: --dedup on or off, --max absent (0) or 2; the run is
\* started without --github-discovery
ArgChoices == [dedup : BOOLEAN, max : {0, 2}]

\* sorted(set(urls))
\* mutant: the set in descending order
SortedUrls_Descending(S) ==
    LET up == SelectSeq(URL_ORDER, LAMBDA u : u \in S)
    IN  [i \in 1..Len(up) |-> up[Len(up) + 1 - i]]

SortedUrls(S) == SelectSeq(URL_ORDER, LAMBDA u : u \in S)

Fig(v) == [known |-> TRUE, val |-> v, unit |-> "GB"]

\* an HTTP response: status, Content-Length header (-1 when absent), the body
\* as its lines, and the figures the traffic patterns find in the body
HttpAnswer(code, content_length, text, traffic) ==
    [kind |-> "http", code |-> code, content_length |-> content_length,
     text |-> text, traffic |-> traffic, message |-> <<>>]

\* requests.get raised; message is str(e)
ExceptionAnswer(message) ==
    [kind |-> "exception", code |-> 0, content_length |-> -1,
     text |-> <<>>, traffic |-> NoTraffic, message |-> message]

Body_a == <<n_ss_hk, n_vmess_tokyo, junk_text, n_ss_hk_padded, n_ssr_plain>>
Body_b == <<n_vmess_tokyo, n_vless_russia, n_trojan_plus, n_ss_jp_hk>>
Body_over_quota == <<n_trojan_free, text_exceeded>>
Body_depleted == <<n_hy2_uk>>
Body_junk == <<junk_text, junk_embedded>>
Body_b64 == <<b64_four_nodes>>

\* 10 GB total of which 3 GB / 10 GB are used
TrafficLeft == [total |-> Fig(1000), used |-> Fig(300), remaining |-> NoFigure]
TrafficSpent == [total |-> Fig(1000), used |-> Fig(1000), remaining |-> NoFigure]

AnswerBody_a == HttpAnswer(200, -1, Body_a, NoTraffic)
AnswerBody_b == HttpAnswer(200, -1, Body_b, TrafficLeft)
AnswerBody_over_quota == HttpAnswer(200, -1, Body_over_quota, NoTraffic)
AnswerBody_depleted == HttpAnswer(200, -1, Body_depleted, TrafficSpent)
AnswerBody_junk == HttpAnswer(200, -1, Body_junk, NoTraffic)
AnswerBody_b64 == HttpAnswer(200, -1, Body_b64, NoTraffic)

BodyAnswers ==
    {AnswerBody_a, AnswerBody_b, AnswerBody_over_quota, AnswerBody_depleted,
     AnswerBody_junk, AnswerBody_b64}

\* elapsed_ms of a response, in whole milliseconds
Latencies == {100, 1500}

ThrottleAnswers ==
    { HttpAnswer(429, -1, <<>>, NoTraffic),
      HttpAnswer(500, -1, <<text_exceeded>>, NoTraffic),
      ExceptionAnswer(err_too_many) }

\* answers to the validation probe
ValidateAnswers(u) ==
    { HttpAnswer(200, -1, <<>>, NoTraffic),
      HttpAnswer(200, 10, <<>>, NoTraffic),
      ExceptionAnswer(err_timed_out) }
    \cup (IF u \in THROTTLED THEN ThrottleAnswers ELSE {})

\* answers to a full fetch
FetchAnswers(u) ==
    BodyAnswers \cup {ExceptionAnswer(err_timed_out)}
    \cup (IF u \in THROTTLED THEN ThrottleAnswers ELSE {})

VALIDATE_ANSWERS == UNION {ValidateAnswers(u) : u \in RunURLS}
FETCH_ANSWERS == UNION {FetchAnswers(u) : u \in RunURLS}

\* validate_subscription_url: (ok, code, err); code 0 and err <<>> are None
validate_subscription_url(ans) ==
    IF ans.kind = "exception"
    THEN [ok |-> FALSE, code |-> 0, err |-> ans.message]
    ELSE IF ans.code # 200
    THEN [ok |-> FALSE, code |-> ans.code, err |-> <<>>]
    ELSE IF ans.content_length # -1 /\ ans.content_length < 64
    THEN [ok |-> FALSE, code |-> ans.code, err |-> <<>>]
    ELSE [ok |-> TRUE, code |-> ans.code, err |-> <<>>]

\* fetch_subscription without its except clause: what requests.get raises
\* leaves the function
fetch_subscription_Propagates(ans) ==
    IF ans.kind = "exception"
    THEN [has_body |-> FALSE, text |-> <<>>, traffic |-> NoTraffic,
          code |-> 0, sample |-> <<ans.message>>, raised |-> TRUE]
    ELSE IF ans.code = 200 /\ ans.text # <<>>
    THEN [has_body |-> TRUE, text |-> ans.text, traffic |-> ans.traffic,
          code |-> ans.code, sample |-> <<>>, raised |-> FALSE]
    ELSE [has_body |-> FALSE, text |-> <<>>, traffic |-> NoTraffic,
          code |-> ans.code,
          sample |-> [i \in 1..Len(ans.text) |-> Lower(ans.text[i])],
          raised |-> FALSE]

\* fetch_subscription: (body, code, sample); sample is the lowered body of a
\* failed response, line by line, or str(e) as raised. raised tells whether
\* an exception leaves the function: the except clause catches every one.
fetch_subscription(ans) ==
    IF ans.kind = "exception"
    THEN [has_body |-> FALSE, text |-> <<>>, traffic |-> NoTraffic,
          code |-> 0, sample |-> <<ans.message>>, raised |-> FALSE]
    ELSE IF ans.code = 200 /\ ans.text # <<>>
    THEN [has_body |-> TRUE, text |-> ans.text, traffic |-> ans.traffic,
          code |-> ans.code, sample |-> <<>>, raised |-> FALSE]
    ELSE [has_body |-> FALSE, text |-> <<>>, traffic |-> NoTraffic,
          code |-> ans.code,
          sample |-> [i \in 1..Len(ans.text) |-> Lower(ans.text[i])],
          raised |-> FALSE]

\* any(h in sample for h in RATE_LIMIT_BODY_HINTS) on a text given by lines
AnyLineHasHint(lines) == \E i \in 1..Len(lines) : HasRateLimitHint(lines[i])

\* f"http {code}" for the codes of RATE_LIMIT_STATUS
HttpReason(code) ==
    IF code = 403 THEN "http 403"
    ELSE IF code = 429 THEN "http 429"
    ELSE IF code = 503 THEN "http 503"
    ELSE "http 509"

\* the reason the validation loop marks a failed probe with, "" for no mark
ProbeMarkReason(res) ==
    IF res.code \in RATE_LIMIT_STATUS THEN HttpReason(res.code)
    ELSE IF res.err # <<>> /\ HasRateLimitHint(Lower(res.err)) THEN "body-hint"
    ELSE ""

\* the reason the node loop marks a fetch without body with, "" for no mark
FetchMarkReason(res) ==
    IF res.code \in RATE_LIMIT_STATUS THEN HttpReason(res.code)
    ELSE IF res.sample # <<>> /\ AnyLineHasHint(res.sample) THEN "body-hint"
    ELSE ""

\* meta["available"] of one alive url
MetaAvailable(res) ==
    IF ~res.has_body THEN FALSE
    ELSE LET traffic == extract_traffic_info_from_text(res.traffic)
             over_quota_hint ==
                 \E i \in 1..Len(res.text) : HasRateLimitHint(Lower(res.text[i]))
             lines == split_subscription_content_to_lines(res.text)
             nodes_total ==
                 Len(SelectSeq(lines, LAMBDA ln : classify_protocol(ln) # ""))
             is_depleted == traffic.remaining.known /\ traffic.remaining.val <= 0
         IN  ~(nodes_total = 0 \/ over_quota_hint \/ is_depleted)

\* nodes_total of the meta loop
MetaNodesTotal(res) ==
    Len(SelectSeq(split_subscription_content_to_lines(res.text),
                  LAMBDA ln : classify_protocol(ln) # ""))

\* over_quota_hint of the meta loop
MetaOverQuotaHint(res) ==
    \E i \in 1..Len(res.text) : HasRateLimitHint(Lower(res.text[i]))

\* remaining_gb of the meta loop as a figure
MetaRemaining(res) == extract_traffic_info_from_text(res.traffic).remaining

\* meta["over_quota"] = bool(over_quota_hint or is_depleted)
MetaOverQuota(res) ==
    MetaOverQuotaHint(res) \/ (MetaRemaining(res).known /\ MetaRemaining(res).val <= 0)

\* has_traffic of the good loop: remaining is None or a positive number
MetaHasTraffic(res) == ~MetaRemaining(res).known \/ MetaRemaining(res).val > 0

\* round(n / d) of Python 3 for n >= 0: halves go to the even neighbour
RoundHalfEven(n, d) ==
    IF 2 * (n % d) < d THEN n \div d
    ELSE IF 2 * (n % d) > d THEN (n \div d) + 1
    ELSE IF (n \div d) % 2 = 0 THEN n \div d
    ELSE (n \div d) + 1

\* quality_score of the meta loop for a response time that is a multiple of
\* 20 ms: lat_component = 100 - min(100, (response_ms or 2000) / 20),
\* parse_component = 100 when nodes were counted
quality_score(response_ms, nodes_total) ==
    RoundHalfEven(
        6 * (100 - Min(100, (IF response_ms = 0 THEN 2000 ELSE response_ms) \div 20))
          + 4 * (IF nodes_total > 0 THEN 100 ELSE 0),
        10)

\* the url_meta entry of one alive url; quality_score 0 and over_quota
\* FALSE are what the good loop reads from an entry without these keys,
\* response_ms -1 stands for None
MetaEntry(u, out, ms) ==
    IF ~out.has_body
    THEN [url |-> u, available |-> FALSE, response_ms |-> IF out.answered THEN ms ELSE -1,
          quality_score |-> 0, over_quota |-> FALSE, has_traffic |-> TRUE]
    ELSE [url |-> u, available |-> out.available, response_ms |-> ms,
          quality_score |-> quality_score(ms, out.nodes_total),
          over_quota |-> out.over_quota, has_traffic |-> out.has_traffic]

\* the condition under which the good loop fetches a source
GoodSource(m) ==
    m.quality_score >= 60 /\ m.response_ms < 2000 /\ ~m.over_quota /\ m.has_traffic

\* the response carries a rate-limit signal: a rate-limit-class status, or
\* a body with a rate-limit phrase whatever the status
RateLimitSignal(ans) ==
    /\ ans.kind = "http"
    /\ \/ ans.code \in RATE_LIMIT_STATUS
       \/ \E i \in 1..Len(ans.text) : HasRateLimitHint(Lower(ans.text[i]))

\* the response shows an exhausted source: status 200 and a body in which
\* the remaining quota resolves to 0 or less, or from which no node decodes,
\* or which holds a rate-limit phrase
ExhaustedResponse(ans) ==
    /\ ans.kind = "http" /\ ans.code = 200 /\ ans.text # <<>>
    /\ \/ /\ extract_traffic_info_from_text(ans.traffic).remaining.known
          /\ extract_traffic_info_from_text(ans.traffic).remaining.val <= 0
       \/ NodesOf(ans.text) = <<>>
       \/ \E i \in 1..Len(ans.text) : HasRateLimitHint(Lower(ans.text[i]))

\* requests.get raised a timeout or connection error
NetworkError(ans) == ans.kind = "exception" /\ ans.message = err_timed_out

\* validate_subscription_url and the mark it leads to, for every probe answer
\* (evaluated once)
ProbeOutcome ==
    [ans \in VALIDATE_ANSWERS |->
        LET res == validate_subscription_url(ans)
        IN  [ok |-> res.ok, code |-> res.code, mark |-> ProbeMarkReason(res),
             signal |-> RateLimitSignal(ans), exhausted |-> FALSE,
             net_error |-> NetworkError(ans), failed |-> ~res.ok]]

\* fetch_subscription and what the loops of main() derive from its result,
\* for every fetch answer (evaluated once)
FetchOutcome ==
    [ans \in FETCH_ANSWERS |->
        LET res == fetch_subscription(ans)
        IN  [has_body |-> res.has_body,
             code |-> res.code,
             answered |-> ans.kind = "http",
             nodes |-> NodesOf(res.text),
             good |-> SelectSeq(NodesOf(res.text), _is_good_node),
             mark |-> FetchMarkReason(res),
             available |-> MetaAvailable(res),
             nodes_total |-> MetaNodesTotal(res),
             over_quota |-> res.has_body /\ MetaOverQuota(res),
             has_traffic |-> ~res.has_body \/ MetaHasTraffic(res),
             signal |-> RateLimitSignal(ans), exhausted |-> ExhaustedResponse(ans),
             net_error |-> NetworkError(ans), failed |-> ~res.has_body,
             raised |-> res.raised]]

\* every node line a source can answer with, and its classification
\* (evaluated once)
NODE_LINES == UNION {SeqRange(FetchOutcome[ans].nodes) : ans \in FETCH_ANSWERS}
ProtocolOf == [ln \in NODE_LINES |-> classify_protocol(ln)]
RegionOf == [ln \in NODE_LINES |-> classify_region_heuristic(ln)]

REGION_NAMES == {REGION_KEYWORDS[i].region : i \in 1..Len(REGION_KEYWORDS)}
main_regions == {"hk", "tw", "sg", "us", "kr", "jp"}

\* the slice of verified_region_to_nodes a line is appended to ("" for none)
RegionSliceOf(line) ==
    LET region == RegionOf[line]
    IN  IF region # "" /\ region \in REGION_NAMES \cup {"others"} THEN region
        ELSE IF region = "" \/ region \notin main_regions THEN "others"
        ELSE ""

\* verified_region_to_nodes after the classification loop
region_slices(nodes) ==
    [r \in REGION_NAMES \cup {"others"} |->
        SelectSeq(nodes, LAMBDA ln : RegionSliceOf(ln) = r)]

\* verified_proto_to_nodes after the classification loop, read with .get(p, [])
proto_slices(nodes) ==
    [p \in SeqRange(CLASSIFY_ORDER) |->
        SelectSeq(nodes, LAMBDA ln : ProtocolOf[ln] = p)]

(***************************************************************************)
(* Aggregation run: the run as a state machine.  A run goes through the    *)
(* loops of main() in order, one request per step; the answer of a source  *)
(* is chosen when it is requested.                                         *)
(***************************************************************************)

EmptyRegionSlices == [r \in REGION_NAMES \cup {"others"} |-> <<>>]
EmptyProtoSlices == [p \in SeqRange(CLASSIFY_ORDER) |-> <<>>]

\* data/history_urls.json holds two sources, nothing was published yet
InitAggVars ==
    /\ history_file = <<"X", "Y">>
    /\ live_file = <<>>
    /\ rate_file = [u \in RunURLS |-> NoInfo]
    /\ rate_state = [u \in RunURLS |-> NoInfo]
    /\ now_ts = 0
    /\ run_pc = "idle"
    /\ run_idx = 1
    /\ run_count = 0
    /\ args = [dedup |-> FALSE, max |-> 0]
    /\ prev_live_urls = <<>>
    /\ candidates = <<>>
    /\ alive_urls = <<>>
    /\ all_nodes = <<>>
    /\ url_meta = <<>>
    /\ refined_alive_urls = <<>>
    /\ verified_nodes = <<>>
    /\ verified_region_to_nodes = EmptyRegionSlices
    /\ verified_proto_to_nodes = EmptyProtoSlices
    /\ sources_new = 0
    /\ sources_removed = 0
    /\ good_nodes = <<>>
    /\ net_failed = {}
    /\ last_req = NoRequest
    /\ sound_nodes = {}
    /\ run_keys = "unread"

\* requests.get(u) is called and answers as out says: the request is
\* recorded with the status of the answer (0 when the call raised) and
\* with what the tracker said about u at that moment, and u joins
\* net_failed when the call raised a network error
Requested(kind, u, out) ==
    /\ last_req' = [kind |-> kind, url |-> u, code |-> out.code,
                    backed_off |-> should_skip_due_to_backoff(rate_state, u, now_ts),
                    signal |-> out.signal,
                    exhausted |-> out.exhausted,
                    after_net_error |-> u \in net_failed,
                    failed |-> out.failed]
    /\ net_failed' = IF out.net_error THEN net_failed \cup {u} ELSE net_failed

\* A call of fetch_subscription in a loop of main(): no loop guards the call
\* with a try, so an exception that leaves the function ends the run.
Fetched(u, out) ==
    /\ Requested("fetch", u, out)
    /\ run_pc' = IF out.raised THEN "aborted" ELSE run_pc

NotFetched == last_req' = NoRequest /\ UNCHANGED <<net_failed, run_pc>>

\* main() up to the validation loop: previous live list, candidate set,
\* rate-limit state and the run's clock; found is what the seed and
\* discovery files add to the history, gap the time since the last run
\* The search-API credentials main() finds: a keys file with quota left, a
\* keys file whose keys are all used up, or no key at all (no keys file and
\* none in the environment, or an empty keys file).
KEY_SITUATIONS == {"available", "exhausted", "none"}

\* Where main() stands between two runs: after the files were written, or
\* after the return of the quota summary that found no key.
RUN_ENDS == {"idle", "returned"}

\* The start of main(). The scraper runs only when the keys have searches
\* left, so that only then the run learns new URLs; without any key the quota
\* summary returns from main() before the candidates are loaded.
StartRun(keys, found, gap) ==
    /\ run_pc \in RUN_ENDS
    /\ run_count < MaxRuns
    /\ keys # "available" => found = {}
    /\ now_ts' = now_ts + gap
    /\ run_keys' = keys
    /\ IF keys = "none"
       THEN /\ run_pc' = "returned"
            /\ run_count' = run_count + 1
            /\ UNCHANGED <<history_file, live_file, rate_file, run_idx, args,
                           prev_live_urls, candidates, alive_urls, all_nodes,
                           url_meta, refined_alive_urls, verified_nodes,
                           verified_region_to_nodes, verified_proto_to_nodes,
                           sources_new, sources_removed, rate_state,
                           good_nodes, net_failed, last_req, sound_nodes>>
       ELSE /\ UNCHANGED <<history_file, live_file, rate_file, run_count>>
            /\ prev_live_urls' = live_file
            /\ candidates' = SortedUrls(SeqRange(history_file) \cup found)
            /\ rate_state' = rate_file
            /\ alive_urls' = <<>>
            /\ all_nodes' = <<>>
            /\ url_meta' = <<>>
            /\ refined_alive_urls' = <<>>
            /\ verified_nodes' = <<>>
            /\ verified_region_to_nodes' = EmptyRegionSlices
            /\ verified_proto_to_nodes' = EmptyProtoSlices
            /\ sources_new' = 0
            /\ sources_removed' = 0
            /\ run_pc' = "validate"
            /\ run_idx' = 1
            /\ args' = [dedup |-> FALSE, max |-> 0]
            /\ good_nodes' = <<>>
            /\ net_failed' = {}
            /\ last_req' = NoRequest
            /\ sound_nodes' = {}
    /\ UNCHANGED notAgg

\* one iteration of the validation loop
ValidateUrl(ans) ==
    /\ run_pc = "validate"
    /\ run_idx <= Len(candidates)
    /\ ans \in ValidateAnswers(candidates[run_idx])
    /\ LET u == candidates[run_idx]
           out == ProbeOutcome[ans]
       IN  IF should_skip_due_to_backoff(rate_state, u, now_ts)
           THEN UNCHANGED <<alive_urls, rate_state>>
           ELSE IF out.ok
           THEN alive_urls' = Append(alive_urls, u) /\ UNCHANGED rate_state
           ELSE /\ UNCHANGED alive_urls
                /\ rate_state' = IF out.mark # ""
                                 THEN mark_rate_limited(rate_state, u, now_ts, out.mark)
                                 ELSE rate_state
    /\ run_idx' = run_idx + 1
    /\ IF should_skip_due_to_backoff(rate_state, candidates[run_idx], now_ts)
       THEN last_req' = NoRequest /\ UNCHANGED net_failed
       ELSE Requested("probe", candidates[run_idx], ProbeOutcome[ans])
    /\ UNCHANGED <<history_file, live_file, rate_file, now_ts, run_pc, run_count,
                   args, prev_live_urls, candidates, all_nodes, url_meta,
                   refined_alive_urls, verified_nodes, verified_region_to_nodes,
                   verified_proto_to_nodes, sources_new, sources_removed, good_nodes, sound_nodes, run_keys, notAgg>>

\* after the validation loop: history_urls.json and rate_limit.json are written
PersistState ==
    /\ run_pc = "validate"
    /\ run_idx > Len(candidates)
    /\ history_file' = candidates
    /\ rate_file' = rate_state
    /\ run_pc' = "fetch_nodes"
    /\ run_idx' = 1
    /\ last_req' = NoRequest
    /\ UNCHANGED <<live_file, rate_state, now_ts, run_count, args, prev_live_urls,
                   candidates, alive_urls, all_nodes, url_meta,
                   refined_alive_urls, verified_nodes, verified_region_to_nodes,
                   verified_proto_to_nodes, sources_new, sources_removed, good_nodes, net_failed, sound_nodes, run_keys, notAgg>>

\* one iteration of the "Fetch nodes" loop
FetchNodesUrl(ans) ==
    /\ run_pc = "fetch_nodes"
    /\ run_idx <= Len(alive_urls)
    /\ ans \in FetchAnswers(alive_urls[run_idx])
    /\ LET u == alive_urls[run_idx]
           out == FetchOutcome[ans]
       IN  IF should_skip_due_to_backoff(rate_state, u, now_ts)
           THEN UNCHANGED <<all_nodes, rate_state>>
           ELSE IF ~out.has_body
           THEN /\ UNCHANGED all_nodes
                /\ rate_state' = IF out.mark # ""
                                 THEN mark_rate_limited(rate_state, u, now_ts, out.mark)
                                 ELSE rate_state
           ELSE all_nodes' = all_nodes \o out.nodes /\ UNCHANGED rate_state
    /\ run_idx' = run_idx + 1
    /\ IF should_skip_due_to_backoff(rate_state, alive_urls[run_idx], now_ts)
       THEN NotFetched
       ELSE Fetched(alive_urls[run_idx], FetchOutcome[ans])
    /\ UNCHANGED <<history_file, live_file, rate_file, now_ts, run_count,
                   args, prev_live_urls, candidates, alive_urls, url_meta,
                   refined_alive_urls, verified_nodes, verified_region_to_nodes,
                   verified_proto_to_nodes, sources_new, sources_removed, good_nodes, sound_nodes, run_keys, notAgg>>

\* "Deduplicate and cap" of the first pass; the command line is a, and this
\* is the first place of the run that reads it
DedupAllNodes(a) ==
    /\ run_pc = "fetch_nodes"
    /\ run_idx > Len(alive_urls)
    /\ args' = a
    /\ all_nodes' = dedup_and_cap(all_nodes, a)
    /\ run_pc' = "meta"
    /\ run_idx' = 1
    /\ last_req' = NoRequest
    /\ UNCHANGED <<history_file, live_file, rate_file, rate_state, now_ts,
                   run_count, prev_live_urls, candidates, alive_urls,
                   url_meta, refined_alive_urls, verified_nodes,
                   verified_region_to_nodes, verified_proto_to_nodes,
                   sources_new, sources_removed, good_nodes, net_failed, sound_nodes, run_keys, notAgg>>

\* one iteration of the loop that builds url_meta; the first-pass node list
\* has been written out and is not read again; ms is the time the response
\* took (one value for the responses that do not make the source available)
MetaUrl(ans, ms) ==
    /\ run_pc = "meta"
    /\ run_idx <= Len(alive_urls)
    /\ ans \in FetchAnswers(alive_urls[run_idx])
    /\ FetchOutcome[ans].available \/ ms = 100
    /\ url_meta' = Append(url_meta, MetaEntry(alive_urls[run_idx], FetchOutcome[ans], ms))
    /\ all_nodes' = <<>>
    /\ run_idx' = run_idx + 1
    /\ Fetched(alive_urls[run_idx], FetchOutcome[ans])
    /\ UNCHANGED <<history_file, live_file, rate_file, rate_state, now_ts,
                   run_count, args, prev_live_urls, candidates, alive_urls,
                   refined_alive_urls, verified_nodes, verified_region_to_nodes,
                   verified_proto_to_nodes, sources_new, sources_removed, good_nodes, sound_nodes, run_keys, notAgg>>

\* refined_alive_urls = [m["url"] for m in url_meta if m.get("available")]
RefineAlive ==
    /\ run_pc = "meta"
    /\ run_idx > Len(alive_urls)
    /\ refined_alive_urls' =
           LET kept == SelectSeq(url_meta, LAMBDA m : m.available)
           IN  [i \in 1..Len(kept) |-> kept[i].url]
    /\ all_nodes' = <<>>
    /\ run_pc' = "verified"
    /\ run_idx' = 1
    /\ last_req' = NoRequest
    /\ UNCHANGED <<history_file, live_file, rate_file, rate_state, now_ts,
                   run_count, args, prev_live_urls, candidates, alive_urls,
                   url_meta, verified_nodes, verified_region_to_nodes,
                   verified_proto_to_nodes, sources_new, sources_removed, good_nodes, net_failed, sound_nodes, run_keys, notAgg>>

\* one iteration of the loop that fetches the nodes of refined_alive_urls
VerifiedUrl(ans) ==
    /\ run_pc = "verified"
    /\ run_idx <= Len(refined_alive_urls)
    /\ ans \in FetchAnswers(refined_alive_urls[run_idx])
    /\ LET u == refined_alive_urls[run_idx]
           out == FetchOutcome[ans]
       IN  IF should_skip_due_to_backoff(rate_state, u, now_ts) \/ ~out.has_body
           THEN UNCHANGED verified_nodes
           ELSE verified_nodes' = verified_nodes \o out.nodes
    /\ run_idx' = run_idx + 1
    /\ IF should_skip_due_to_backoff(rate_state, refined_alive_urls[run_idx], now_ts)
       THEN NotFetched
       ELSE Fetched(refined_alive_urls[run_idx], FetchOutcome[ans])
    /\ sound_nodes' =
           IF /\ ~should_skip_due_to_backoff(rate_state, refined_alive_urls[run_idx], now_ts)
              /\ FetchOutcome[ans].has_body /\ ~FetchOutcome[ans].exhausted
           THEN sound_nodes \cup SeqRange(FetchOutcome[ans].nodes)
           ELSE sound_nodes
    /\ UNCHANGED <<history_file, live_file, rate_file, rate_state, now_ts,
                   run_count, args, prev_live_urls, candidates, alive_urls,
                   all_nodes, url_meta, refined_alive_urls,
                   verified_region_to_nodes, verified_proto_to_nodes,
                   sources_new, sources_removed, good_nodes, run_keys, notAgg>>

\* dedup and cap of verified_nodes
DedupVerified ==
    /\ run_pc = "verified"
    /\ run_idx > Len(refined_alive_urls)
    /\ verified_nodes' = dedup_and_cap(verified_nodes, args)
    /\ run_pc' = "good"
    /\ run_idx' = 1
    /\ last_req' = NoRequest
    /\ UNCHANGED <<history_file, live_file, rate_file, rate_state, now_ts,
                   run_count, args, prev_live_urls, candidates, alive_urls,
                   all_nodes, url_meta, refined_alive_urls,
                   verified_region_to_nodes, verified_proto_to_nodes,
                   sources_new, sources_removed, good_nodes, net_failed, sound_nodes, run_keys, notAgg>>

\* source_quality_map.get(u, {}): the entry of the last available url_meta
\* record of u
SourceInfo(meta, u) ==
    meta[CHOOSE i \in 1..Len(meta) :
             /\ meta[i].url = u /\ meta[i].available
             /\ \A k \in (i + 1)..Len(meta) : ~(meta[k].url = u /\ meta[k].available)]

\* one iteration of the loop that collects good_nodes: a source that is
\* not backed off and whose url_meta record passes GoodSource is fetched
\* once more, and its lines that pass _is_good_node are appended
GoodUrl(ans) ==
    /\ run_pc = "good"
    /\ run_idx <= Len(refined_alive_urls)
    /\ ans \in FetchAnswers(refined_alive_urls[run_idx])
    /\ good_nodes' =
           IF /\ ~should_skip_due_to_backoff(rate_state, refined_alive_urls[run_idx], now_ts)
              /\ GoodSource(SourceInfo(url_meta, refined_alive_urls[run_idx]))
              /\ FetchOutcome[ans].has_body
           THEN good_nodes \o FetchOutcome[ans].good
           ELSE good_nodes
    /\ run_idx' = run_idx + 1
    /\ IF /\ ~should_skip_due_to_backoff(rate_state, refined_alive_urls[run_idx], now_ts)
          /\ GoodSource(SourceInfo(url_meta, refined_alive_urls[run_idx]))
       THEN Fetched(refined_alive_urls[run_idx], FetchOutcome[ans])
       ELSE NotFetched
    /\ UNCHANGED <<history_file, live_file, rate_file, rate_state, now_ts,
                   run_count, args, prev_live_urls, candidates, alive_urls,
                   all_nodes, url_meta, refined_alive_urls, verified_nodes,
                   verified_region_to_nodes, verified_proto_to_nodes,
                   sources_new, sources_removed, sound_nodes, run_keys, notAgg>>

\* after the good loop: if args.dedup, good_nodes keeps first occurrences
DedupGood ==
    /\ run_pc = "good"
    /\ run_idx > Len(refined_alive_urls)
    /\ good_nodes' = IF args.dedup THEN dedup_nodes(good_nodes) ELSE good_nodes
    /\ run_pc' = "publish"
    /\ run_idx' = 1
    /\ last_req' = NoRequest
    /\ UNCHANGED <<history_file, live_file, rate_file, rate_state, now_ts,
                   run_count, args, prev_live_urls, candidates, alive_urls,
                   all_nodes, url_meta, refined_alive_urls, verified_nodes,
                   verified_region_to_nodes, verified_proto_to_nodes,
                   sources_new, sources_removed, net_failed, sound_nodes, run_keys, notAgg>>

\* classification of the verified nodes, the node and slice files (written
\* from verified_nodes and the two maps as they are), live_urls.json and the
\* delta counts of health.json
Publish ==
    /\ run_pc = "publish"
    /\ verified_region_to_nodes' = region_slices(verified_nodes)
    /\ verified_proto_to_nodes' = proto_slices(verified_nodes)
    /\ live_file' = refined_alive_urls
    /\ sources_new' = delta_counts(refined_alive_urls, prev_live_urls).new
    /\ sources_removed' = delta_counts(refined_alive_urls, prev_live_urls).removed
    /\ run_count' = run_count + 1
    /\ run_pc' = "idle"
    /\ last_req' = NoRequest
    /\ UNCHANGED <<history_file, rate_file, rate_state, now_ts, run_idx, args,
                   prev_live_urls, candidates, alive_urls, all_nodes, url_meta,
                   refined_alive_urls, verified_nodes, good_nodes, net_failed, sound_nodes, run_keys, notAgg>>

InitAgg == InitAggVars /\ IdleNotAgg

\* Successive runs: MaxRuns runs with --dedup, whose sources answer a full
\* fetch with one good body, one over-quota body, a timeout or (the
\* throttled source) a rate-limit signal, each within 100 ms
RUNS_FETCHES ==
    {AnswerBody_a, AnswerBody_over_quota, ExceptionAnswer(err_timed_out)}
        \cup ThrottleAnswers
RUNS_KEYS == {"available", "none"}

RUNS_ARGS == {[dedup |-> TRUE, max |-> 0]}

NextAgg ==
    \/ \E keys \in RUNS_KEYS, found \in SUBSET {"Z"}, gap \in RunGaps :
           StartRun(keys, found, gap)
    \/ \E ans \in VALIDATE_ANSWERS : ValidateUrl(ans)
    \/ PersistState
    \/ \E ans \in RUNS_FETCHES : FetchNodesUrl(ans)
    \/ \E a \in RUNS_ARGS : DedupAllNodes(a)
    \/ \E ans \in RUNS_FETCHES : MetaUrl(ans, 100)
    \/ RefineAlive
    \/ \E ans \in RUNS_FETCHES : VerifiedUrl(ans)
    \/ DedupVerified
    \/ \E ans \in RUNS_FETCHES : GoodUrl(ans)
    \/ DedupGood
    \/ Publish

SpecAgg == InitAgg /\ [][NextAgg]_vars

\* One run over every body: any command line, any response time, sources
\* that answer a probe with 200 or a timeout and a full fetch with any of
\* the bodies or (the throttled source) 429
NodeRuns == 1
NODES_PROBES == {HttpAnswer(200, -1, <<>>, NoTraffic), ExceptionAnswer(err_timed_out)}
NODES_FETCHES == BodyAnswers \cup {HttpAnswer(429, -1, <<>>, NoTraffic)}

NextNodes ==
    \/ \E keys \in KEY_SITUATIONS, found \in SUBSET {"Z"} :
           run_count < NodeRuns /\ StartRun(keys, found, 600)
    \/ \E ans \in NODES_PROBES : ValidateUrl(ans)
    \/ PersistState
    \/ \E ans \in NODES_FETCHES : FetchNodesUrl(ans)
    \/ \E a \in ArgChoices : DedupAllNodes(a)
    \/ \E ans \in NODES_FETCHES, ms \in Latencies : MetaUrl(ans, ms)
    \/ RefineAlive
    \/ \E ans \in NODES_FETCHES : VerifiedUrl(ans)
    \/ DedupVerified
    \/ \E ans \in NODES_FETCHES : GoodUrl(ans)
    \/ DedupGood
    \/ Publish

SpecNodes == InitAgg /\ [][NextNodes]_vars

(***************************************************************************)
(* Aggregation run: properties                                             *)
(***************************************************************************)

\* C6: the new and removed source counts a run reports are the sizes of
\* (current alive set - previous alive set) and (previous alive set - current
\* alive set), where the previous set is the alive-source list the previous
\* run published and the current set is the list this run publishes (not the
\* run's candidate list); previous {X, Y} and current {Y, Z} give one new
\* source and one removed source.
C6_DeltaAgainstPreviousPublished ==
    /\ [][(run_pc = "publish" /\ run_pc' = "idle") =>
             /\ sources_new'
                    = Cardinality(SeqRange(live_file') \ SeqRange(live_file))
             /\ sources_removed'
                    = Cardinality(SeqRange(live_file) \ SeqRange(live_file'))]_vars
    /\ []((/\ run_pc = "idle" /\ run_count > 0
           /\ SeqRange(prev_live_urls) = {"X", "Y"}
           /\ SeqRange(live_file) = {"Y", "Z"})
          => (sources_new = 1 /\ sources_removed = 1))

\* the second run published {Y, Z} after the first had published {X, Y}, out
\* of the candidates {X, Y, Z}
C6_Witness ==
    /\ run_pc = "idle"
    /\ run_count = 2
    /\ prev_live_urls = <<"X", "Y">>
    /\ live_file = <<"Y", "Z">>
    /\ candidates = <<"X", "Y", "Z">>
    /\ sources_new = 1
    /\ sources_removed = 1

\* position of the first occurrence of x in s
FirstIndex(s, x) ==
    CHOOSE i \in 1..Len(s) : s[i] = x /\ \A k \in 1..(i - 1) : s[k] # x

\* after holds each of its nodes once, in the order of their first
\* occurrence in before, and holds every node of before that first occurs
\* ahead of a node it holds
FirstSeenWins(before, after) ==
    /\ \A i, j \in 1..Len(after) : i # j => after[i] # after[j]
    /\ SeqRange(after) \subseteq SeqRange(before)
    /\ \A i, j \in 1..Len(after) :
           i < j => FirstIndex(before, after[i]) < FirstIndex(before, after[j])
    /\ \A x \in SeqRange(before), y \in SeqRange(after) :
           FirstIndex(before, x) < FirstIndex(before, y) => x \in SeqRange(after)

\* what a dedup step turning before into after must satisfy under command
\* line a
DedupStepOk(before, after, a) ==
    a.dedup =>
        /\ FirstSeenWins(before, after)
        /\ (a.max = 0 \/ Cardinality(SeqRange(before)) <= a.max)
               => SeqRange(after) = SeqRange(before)
        /\ (a.max # 0 /\ Cardinality(SeqRange(before)) > a.max)
               => Len(after) = a.max
        /\ dedup_nodes(after) = after

\* C7: deduplication of a run's node list is first-seen-wins and
\* order-preserving (each distinct node is kept once, at the position of its
\* first occurrence, kept nodes keep their relative order; a cap keeps the
\* earliest entries) and idempotent: deduplicating the result again yields
\* the same list.  Both passes of the run are covered.
C7_DedupFirstSeenIdempotent ==
    [][/\ (run_pc = "fetch_nodes" /\ run_pc' = "meta")
              => DedupStepOk(all_nodes, all_nodes', args')
       /\ (run_pc = "verified" /\ run_pc' = "good")
              => DedupStepOk(verified_nodes, verified_nodes', args)]_vars

\* with --dedup and no cap, the bodies a and b of two sources (eight node
\* lines, one repeated inside a, one shared by a and b) have become six
C7_Witness ==
    /\ run_pc = "publish"
    /\ args = [dedup |-> TRUE, max |-> 0]
    /\ verified_nodes = <<n_ss_hk, n_vmess_tokyo, n_ssr_plain, n_vless_russia,
                          n_trojan_plus, n_ss_jp_hk>>

\* the label of the first entry of the ordered protocol list whose prefix the
\* line starts with
FirstMatchingProtocol(ln) ==
    LET hits == {i \in 1..Len(CLASSIFY_ORDER) : StartsWith(ln, SchemeOf(CLASSIFY_ORDER[i]))}
    IN  CLASSIFY_ORDER[CHOOSE i \in hits : \A k \in hits : i <= k]

\* the display name of a node line is the text after its first '#'
HasDisplayName(ln) == \E i \in 1..Len(ln) : ln[i] = "#"

\* the regions with a keyword that occurs in the display name of the line,
\* for every node line (evaluated once)
DisplayNameRegions ==
    [ln \in NODE_LINES |->
        IF HasDisplayName(ln)
        THEN {REGION_KEYWORDS[i].region : i \in
                 {i \in 1..Len(REGION_KEYWORDS) : RegionHit(i, Lower(DisplayOf(ln)))}}
        ELSE {}]

ProtoSlicesWith(ln) ==
    {p \in DOMAIN verified_proto_to_nodes : ln \in SeqRange(verified_proto_to_nodes[p])}
RegionSlicesWith(ln) ==
    {r \in DOMAIN verified_region_to_nodes : ln \in SeqRange(verified_region_to_nodes[r])}

Published == run_pc = "idle" /\ run_count > 0

\* every published node is in exactly one protocol slice, that of the first
\* matching prefix, and in exactly one region slice
ExactlyOneLabelAndSlice ==
    Published =>
        \A ln \in SeqRange(verified_nodes) :
            /\ ProtoSlicesWith(ln) = {FirstMatchingProtocol(ln)}
            /\ Cardinality(RegionSlicesWith(ln)) = 1

\* C10: every node of the published node list is tagged with exactly one
\* protocol label (the first matching prefix of the fixed ordered list) and is
\* placed in exactly one region slice: a named region when a region keyword
\* matches its display name, otherwise the unclassified slice.
C10_OneLabelOneSliceByDisplayName ==
    /\ ExactlyOneLabelAndSlice
    /\ Published =>
           \A ln \in SeqRange(verified_nodes) :
               IF DisplayNameRegions[ln] = {}
               THEN RegionSlicesWith(ln) = {"others"}
               ELSE RegionSlicesWith(ln) \subseteq DisplayNameRegions[ln]

\* the same restricted to the nodes that carry a display name
C10_NamedNodesByDisplayName ==
    /\ ExactlyOneLabelAndSlice
    /\ Published =>
           \A ln \in SeqRange(verified_nodes) :
               HasDisplayName(ln) =>
                   IF DisplayNameRegions[ln] = {}
                   THEN RegionSlicesWith(ln) = {"others"}
                   ELSE RegionSlicesWith(ln) \subseteq DisplayNameRegions[ln]

\* a node without display name whose address holds a region keyword has been
\* published in a named region slice
C10_NamelessNodeInNamedSlice ==
    /\ Published
    /\ n_trojan_plus \in SeqRange(verified_nodes)
    /\ n_trojan_plus \in SeqRange(verified_region_to_nodes["us"])
    /\ ~HasDisplayName(n_trojan_plus)

\* the display name of the line, percent-decoded and case-folded, holds one
\* of the low-quality markers, for every node line (evaluated once)
NameHasMarker ==
    [ln \in NODE_LINES |->
        HasDisplayName(ln) /\ HasKeyword(Lower(unquote(DisplayOf(ln))))]

\* C11: a node whose display name, after percent-decoding and case-folding,
\* contains a low-quality marker (free, trial, test, expired, limited and the
\* listed Chinese ones) is never in the good subset, whether its source
\* served it as plain text or inside a base64 body.
C11_GoodSubsetHasNoMarkedName ==
    \A i \in 1..Len(good_nodes) : ~NameHasMarker[good_nodes[i]]

\* a base64 body was decoded into its four nodes, all four were published in
\* the node list, and of them only the one without marker is in the good
\* subset: the marker was written plainly, percent-encoded and as
\* percent-encoded UTF-8
C11_Witness ==
    /\ Published
    /\ {n_trojan_ccc_free, n_ss_pct_free, n_ss_pct_mianfei, n_vmess_jp}
           \subseteq SeqRange(verified_nodes)
    /\ NameHasMarker[n_trojan_ccc_free]
    /\ NameHasMarker[n_ss_pct_free]
    /\ NameHasMarker[n_ss_pct_mianfei]
    /\ n_vmess_jp \in SeqRange(good_nodes)
    /\ {n_trojan_ccc_free, n_ss_pct_free, n_ss_pct_mianfei} \cap SeqRange(good_nodes) = {}

\* C12: at every point of a run, no HTTP request (validation probe or full
\* fetch, in any phase) is issued to a URL for which
\* should_skip_due_to_backoff(url, now) is true.
C12_NoRequestWhileBackedOff ==
    last_req.kind # "none" => ~last_req.backed_off

\* the loops that ask the tracker first (validation, first fetch, verified
\* and good loop) issue no request to a backed-off URL
C12_GuardedLoopsSkipBackedOff ==
    (last_req.kind # "none" /\ run_pc # "meta") => ~last_req.backed_off

\* the url_meta loop has fetched a URL that the first fetch loop of the same
\* run had marked as rate-limited
C12_MetaLoopFetchedBackedOff ==
    /\ run_pc = "meta"
    /\ last_req.kind = "fetch"
    /\ last_req.backed_off
    /\ should_skip_due_to_backoff(rate_state, last_req.url, now_ts)
    /\ rate_state[last_req.url].last_at = now_ts

\* a run starts: main() loads rate_limit.json
RunStarts == run_pc \in RUN_ENDS /\ run_pc' = "validate"

\* C13: rate-limit state persists across runs: every failure count and
\* next-allowed time recorded by a rate-limit signal at any point of run k
\* is in the state loaded at the start of run k+1 (while a run is idle,
\* rate_state is the state the last run ended with).
C13_StateLoadedIsStateLeft ==
    [][RunStarts => rate_state' = rate_state]_vars

\* what the validation loop records reaches the next run: a record a run
\* starts without belongs to a URL that had passed the validation of the
\* run before
C13_ProbeMarksPersist ==
    [][RunStarts =>
          \A u \in RunURLS :
              rate_state'[u] # rate_state[u] => u \in SeqRange(alive_urls)]_vars

\* a run has ended with a record for X, made by its first fetch loop, that
\* rate_limit.json does not hold, and the next run would start inside the
\* wait of that record
C13_FetchMarkNotInFile ==
    /\ run_pc = "idle"
    /\ run_count = 1
    /\ rate_state["X"].hits = 1
    /\ rate_state["X"].next_allowed_at > now_ts + 600
    /\ rate_file["X"] = NoInfo

\* this step moves u from ACTIVE to LIMITED: its failure count goes up by
\* one and its next-allowed time is set
BecomesLimited(u) ==
    /\ rate_state'[u].hits = rate_state[u].hits + 1
    /\ rate_state'[u].last_at = now_ts
    /\ rate_state'[u].next_allowed_at > now_ts

\* C15: a URL goes from ACTIVE to LIMITED whenever a fetch of it returns a
\* rate-limit-class status (403, 429, 503, 509) or a body whose text holds
\* a rate-limit phrase, whatever the status.
C15_SignalLimitsSource ==
    [][(last_req'.kind = "fetch" /\ last_req'.signal)
           => BecomesLimited(last_req'.url)]_vars

\* what the code does mark: a probe answered with a rate-limit-class
\* status, and a fetch of the first fetch loop that came back without a
\* usable body and with a signal
C15_FirstLoopsMarkFailures ==
    [][/\ (run_pc = "validate" /\ last_req'.kind = "probe"
              /\ last_req'.code \in RATE_LIMIT_STATUS)
           => BecomesLimited(last_req'.url)
       /\ (run_pc = "fetch_nodes" /\ last_req'.kind = "fetch"
              /\ last_req'.signal /\ last_req'.code # 200)
           => BecomesLimited(last_req'.url)]_vars

\* the first fetch loop got a 200 whose body holds a rate-limit phrase and
\* left the URL without any record
C15_PhraseIn200NotMarked ==
    /\ run_pc = "fetch_nodes"
    /\ last_req.kind = "fetch"
    /\ last_req.signal
    /\ last_req.code = 200
    /\ rate_state[last_req.url] = NoInfo

\* the url_meta loop got a 429 and left the URL without any record
C15_StatusInMetaLoopNotMarked ==
    /\ run_pc = "meta"
    /\ last_req.kind = "fetch"
    /\ last_req.code = 429
    /\ rate_state[last_req.url] = NoInfo

\* C17: a source whose remaining quota resolves to 0 or less, or from which
\* zero nodes decode, or whose 200 body holds a rate-limit phrase, is
\* excluded from the run's published output: it is not in the published
\* alive-source list and no response it gave in that condition contributes
\* nodes to the published node list.
C17_ExhaustedSourceNotPublished ==
    /\ [][(run_pc = "meta" /\ last_req'.kind = "fetch" /\ last_req'.exhausted)
              => ~url_meta'[Len(url_meta')].available]_vars
    /\ [](Published =>
             /\ \A i \in 1..Len(url_meta) :
                    url_meta[i].url \in SeqRange(live_file) => url_meta[i].available
             /\ SeqRange(verified_nodes) \subseteq sound_nodes)

\* the alive-source part: a source whose response to the url_meta loop
\* shows exhaustion is not in the published alive-source list
C17_AliveListHasNoExhaustedSource ==
    /\ [][(run_pc = "meta" /\ last_req'.kind = "fetch" /\ last_req'.exhausted)
              => ~url_meta'[Len(url_meta')].available]_vars
    /\ [](Published =>
             \A i \in 1..Len(url_meta) :
                 url_meta[i].url \in SeqRange(live_file) => url_meta[i].available)

\* the published node list holds a node that only an over-quota response
\* served: the source passed the url_meta loop and answered the verified
\* loop with a 200 whose body holds a rate-limit phrase
C17_ExhaustedResponsePublished ==
    /\ Published
    /\ n_trojan_free \in SeqRange(verified_nodes)
    /\ n_trojan_free \notin sound_nodes

\* a start of main(): the clock of the run is read
MainCalled == run_pc \in RUN_ENDS /\ now_ts' > now_ts

\* C18: when every search-API credential is exhausted, or none is available,
\* only discovery is skipped: the run still goes through the aggregation and
\* ends by publishing its snapshot. Every run of main() that ends has
\* written the files, and a run that met no usable credential has started
\* the aggregation.
C18_RunWithoutCredentialPublishes ==
    /\ [][run_count' # run_count => (run_pc = "publish" /\ run_pc' = "idle")]_vars
    /\ [][(MainCalled /\ run_keys' \in {"exhausted", "none"}) =>
             run_pc' = "validate"]_vars

\* with every credential exhausted the run skips discovery only: it loads
\* the recorded history as its candidates and starts the first loop
C18_ExhaustedKeysSkipDiscoveryOnly ==
    [][(MainCalled /\ run_keys' = "exhausted") =>
         /\ run_pc' = "validate"
         /\ candidates' = SortedUrls(SeqRange(history_file))
         /\ UNCHANGED <<history_file, live_file, rate_file>>]_vars

\* a run with exhausted credentials has published the snapshot of the
\* recorded sources
C18_ExhaustedKeysPublished ==
    /\ Published
    /\ run_keys = "exhausted"
    /\ live_file # <<>>
    /\ verified_nodes # <<>>

\* main() has returned from the quota summary: the run has ended and no
\* file was written
C18_ReturnedWithoutSnapshot ==
    /\ run_pc = "returned"
    /\ run_keys = "none"
    /\ run_count = 1
    /\ live_file = <<>>
    /\ candidates = <<>>

\* the loops of main() in the order they execute
RUN_PHASES == <<"validate", "fetch_nodes", "meta", "verified", "good", "publish">>

PhaseIndex(pc) == CHOOSE i \in 1..Len(RUN_PHASES) : RUN_PHASES[i] = pc

\* a step of a run: the loop goes to its next source, or main() goes to a
\* later loop, or the run ends with the files written
RunAdvances ==
    \/ run_pc' = run_pc /\ run_idx' = run_idx + 1
    \/ /\ run_pc' \in SeqRange(RUN_PHASES)
       /\ PhaseIndex(run_pc') > PhaseIndex(run_pc)
    \/ run_pc = "publish" /\ run_pc' = "idle"

\* C19: a fetch or decode failure of a single source never aborts the run.
\* No run ends in an exception; a fetch that brings no body leaves every node
\* list as it was, the url_meta loop records the source as unavailable, and
\* the loop goes on with the next source; every step of a run advances it.
C19_SourceFailureNeverAbortsRun ==
    /\ [](run_pc # "aborted")
    /\ [][(last_req'.kind = "fetch" /\ last_req'.failed) =>
             /\ run_pc' = run_pc
             /\ run_idx' = run_idx + 1
             /\ UNCHANGED <<verified_nodes, good_nodes, live_file, history_file>>
             /\ run_pc = "fetch_nodes" => all_nodes' = all_nodes
             /\ run_pc = "meta" => ~url_meta'[Len(url_meta')].available]_vars
    /\ [][run_pc \notin RUN_ENDS => RunAdvances]_vars

\* a run has ended with its files written although the fetch of one of its
\* validated sources timed out: the source is left out of the alive list,
\* and the nodes of another source are published
C19_Witness ==
    /\ Published
    /\ \E u \in net_failed :
           /\ u \in SeqRange(alive_urls)
           /\ u \notin SeqRange(live_file)
    /\ live_file # <<>>
    /\ verified_nodes # <<>>

\* C20: a source whose fetch fails with a transient network error (time-out
\* or connection error) is not fetched again within the same run: no request
\* of a run goes to a URL that a request of the same run left with a network
\* error.
C20_NoRequestAfterNetworkError ==
    last_req.kind # "none" => ~last_req.after_net_error

\* a source whose validation probe ends in a network error gets no further
\* request in the run: a request after a network error goes to a source of
\* the alive list only
C20_FailedProbeEndsRequests ==
    (last_req.kind # "none" /\ last_req.after_net_error) =>
        /\ last_req.kind = "fetch"
        /\ last_req.url \in SeqRange(alive_urls)

\* the url_meta loop of the first run fetches a source whose fetch in the
\* first fetch loop of the same run timed out
C20_FetchedAgainAfterTimeout ==
    /\ run_count = 0
    /\ run_pc = "meta"
    /\ last_req.kind = "fetch"
    /\ last_req.after_net_error
    /\ last_req.url \in net_failed

(***************************************************************************)
(* Retry decorator (error_handler.py retry_with_backoff).  Delays are in   *)
(* milliseconds; backoff_factor is the fraction factor_num / factor_den.   *)
(***************************************************************************)

\* RetryConfig(max_retries, initial_delay, backoff_factor, max_delay)
RetryConfig(max_retries, initial_ms, factor_num, factor_den, max_ms) ==
    [max_retries |-> max_retries, initial_delay |-> initial_ms,
     factor_num |-> factor_num, factor_den |-> factor_den, max_delay |-> max_ms]

\* the configurations of error_handler.py: the default, NETWORK_RETRY_CONFIG,
\* API_RETRY_CONFIG, SUBSCRIPTION_RETRY_CONFIG
ModuleConfigs ==
    { RetryConfig(3, 1000, 2, 1, 60000),
      RetryConfig(2, 2000, 3, 2, 60000),
      RetryConfig(2, 1000, 2, 1, 60000) }

\* configurations a caller builds: no retry at all, a constant delay, a
\* max_delay that the growing delay reaches, a max_delay below initial_delay
CallerConfigs ==
    { RetryConfig(0, 1000, 2, 1, 60000),
      RetryConfig(4, 500, 1, 1, 60000),
      RetryConfig(5, 1000, 2, 1, 5000),
      RetryConfig(4, 2000, 3, 2, 8000),
      RetryConfig(3, 4000, 2, 1, 3000) }

\* bounds
MaxWrapperCalls == 2

RECURSIVE Power(_, _)
Power(b, e) == IF e = 0 THEN 1 ELSE b * Power(b, e - 1)

\* min(config.initial_delay * (config.backoff_factor ** attempt), config.max_delay)
RetryDelay_Uncapped(config, attempt) ==
    (config.initial_delay * Power(config.factor_num, attempt))
        \div Power(config.factor_den, attempt)

RetryDelay(config, attempt) ==
    Min((config.initial_delay * Power(config.factor_num, attempt))
            \div Power(config.factor_den, attempt),
        config.max_delay)

\* what one call of func does: returns a result, returns a response whose
\* status code is retryable, raises a retryable exception, raises another one
CallOutcomes == {"result", "retryable_status", "retryable_exception", "other_exception"}

InitRetry ==
    /\ rt_config \in ModuleConfigs \cup CallerConfigs
    /\ rt_calls = 0
    /\ rt_slept = <<>>
    /\ rt_pc = "calling"
    /\ rt_ended = 0
    /\ IdleNotRetry

\* one pass of the loop of wrapper: attempt = rt_calls
CallFunc(out) ==
    /\ rt_pc = "calling"
    /\ rt_calls < rt_config.max_retries + 1
    /\ rt_calls' = rt_calls + 1
    /\ IF out \in {"retryable_status", "retryable_exception"}
          /\ rt_calls < rt_config.max_retries
       THEN /\ rt_slept' = Append(rt_slept, RetryDelay(rt_config, rt_calls))
            /\ rt_pc' = "calling"
       ELSE /\ rt_slept' = rt_slept
            /\ rt_pc' = IF out \in {"result", "retryable_status"}
                        THEN "returned" ELSE "raised"
    /\ UNCHANGED <<rt_config, rt_ended, notRetry>>

\* the wrapper is called again
CallAgain ==
    /\ rt_pc \in {"returned", "raised"}
    /\ rt_ended < MaxWrapperCalls - 1
    /\ rt_ended' = rt_ended + 1
    /\ rt_calls' = 0
    /\ rt_slept' = <<>>
    /\ rt_pc' = "calling"
    /\ UNCHANGED <<rt_config, notRetry>>

NextRetry ==
    \/ \E out \in CallOutcomes : CallFunc(out)
    \/ CallAgain

SpecRetry == InitRetry /\ [][NextRetry]_vars

\* the delay of the k-th retry by the formula of the documentation, as an
\* exact fraction compared without division
IsDocumentedDelay(delay, config, k) ==
    LET num == config.initial_delay * Power(config.factor_num, k - 1)
        den == Power(config.factor_den, k - 1)
    IN  IF num >= config.max_delay * den
        THEN delay = config.max_delay
        ELSE delay * den = num

\* C27: a wrapped function is called at most max_retries + 1 times per call,
\* the delay before the k-th retry is
\* min(initial_delay * backoff_factor^(k-1), max_delay), the delays never
\* decrease and never exceed max_delay.
C27_BoundedCallsAndDelays ==
    /\ rt_calls <= rt_config.max_retries + 1
    /\ Len(rt_slept) <= rt_config.max_retries
    /\ \A k \in 1..Len(rt_slept) :
           /\ IsDocumentedDelay(rt_slept[k], rt_config, k)
           /\ rt_slept[k] <= rt_config.max_delay
           /\ k > 1 => rt_slept[k] >= rt_slept[k - 1]

\* every retry was used: max_retries + 1 calls, the delay has grown and
\* then stayed at max_delay
C27_Witness ==
    /\ rt_pc = "raised"
    /\ rt_calls = rt_config.max_retries + 1
    /\ Len(rt_slept) = 5
    /\ rt_slept[1] < rt_slept[2]
    /\ rt_slept[4] = rt_config.max_delay
    /\ rt_slept[5] = rt_config.max_delay

(***************************************************************************)
(* Region rotation of the scraper (google_api_scraper_enhanced.py          *)
(* load_region_index, save_region_index, scrape_api_urls).                  *)
(***************************************************************************)

\* bounds
MaxScrapes == 9

\* self.regions, by their gl code
regions == <<"cn", "hk", "us", "sg", "jp">>

RegionsConfig(priority_regions, use_priority_only) ==
    [priority_regions |-> priority_regions, use_priority_only |-> use_priority_only]

\* config["regions"]: the default of load_config, the defaults of config.py
\* (PRIORITY_REGIONS) with USE_PRIORITY_ONLY unset and set, a priority list of
\* two regions, and an empty priority list
RegionConfigs ==
    { RegionsConfig(<<"cn", "hk", "us", "sg", "jp">>, TRUE),
      RegionsConfig(<<"cn", "hk", "tw", "us", "sg", "jp", "kr", "de">>, FALSE),
      RegionsConfig(<<"cn", "hk", "tw", "us", "sg", "jp", "kr", "de">>, TRUE),
      RegionsConfig(<<"hk", "jp">>, TRUE),
      RegionsConfig(<<>>, TRUE) }

\* priority_region_configs: the regions of self.regions that priority_regions
\* names, in the order of priority_regions
priority_region_configs(config) ==
    SelectSeq(config.priority_regions, LAMBDA code : code \in SeqRange(regions))

\* load_region_index: the index of the file when below len(self.regions)
load_region_index(file_index) ==
    IF file_index < Len(regions) THEN file_index % Len(regions) ELSE 0

\* regions_to_search of one scraping run
regions_to_search(config, index) ==
    IF config.use_priority_only /\ config.priority_regions # <<>>
    THEN IF priority_region_configs(config) # <<>>
         THEN <<priority_region_configs(config)[(index % Len(priority_region_configs(config))) + 1]>>
         ELSE <<>>
    ELSE <<regions[(index % Len(regions)) + 1]>>

\* the index update at the end of scrape_api_urls; the division by
\* len(priority_regions) = 0 raises and the except clause of scrape_api_urls
\* leaves the index as it is
NextRegionIndex(config, index, found) ==
    IF ~config.use_priority_only THEN (index + 1) % Len(regions)
    ELSE IF config.priority_regions = <<>> THEN index
    ELSE (index + 1) % Len(config.priority_regions)

\* whether save_region_index is reached
IndexSaved(config) ==
    ~config.use_priority_only \/ config.priority_regions # <<>>

\* the regions the runs rotate over
Rotation(config) ==
    IF config.use_priority_only /\ config.priority_regions # <<>>
    THEN priority_region_configs(config)
    ELSE regions

\* the last n entries of seq
LastN(seq, n) ==
    IF Len(seq) <= n THEN seq ELSE SubSeq(seq, Len(seq) - n + 1, Len(seq))

InitRegion ==
    /\ rg_config \in RegionConfigs
    /\ rg_file = 0
    /\ rg_index = 0
    /\ rg_searched = <<>>
    /\ rg_runs = 0
    /\ IdleNotRegion

\* One scraping run. A new process builds the scraper and loads the index
\* from the file; a scheduled run of a living process keeps self's index.
\* found tells whether the search gave results (an empty answer and a raised
\* error are both handled inside the loop over regions_to_search).
Scrape(new_process, found) ==
    /\ rg_runs < MaxScrapes
    /\ LET index == IF new_process THEN load_region_index(rg_file) ELSE rg_index
           searched == regions_to_search(rg_config, index)
       IN  /\ rg_index' = NextRegionIndex(rg_config, index, found)
           /\ rg_file' = IF IndexSaved(rg_config)
                         THEN NextRegionIndex(rg_config, index, found)
                         ELSE rg_file
           /\ rg_searched' =
                  LastN(rg_searched \o
                            [i \in 1..Len(searched) |-> [gl |-> searched[i], found |-> found]],
                        Len(Rotation(rg_config)))
    /\ rg_runs' = rg_runs + 1
    /\ UNCHANGED <<rg_config, notRegion>>

NextRegion == \E new_process, found \in BOOLEAN : Scrape(new_process, found)

SpecRegion == InitRegion /\ [][NextRegion]_vars

\* priority_regions names regions of self.regions only, and at least one
AllCodesKnown(config) ==
    /\ config.priority_regions # <<>>
    /\ \A i \in 1..Len(config.priority_regions) :
           config.priority_regions[i] \in SeqRange(regions)

\* the persisted index lies in [0, N) and the latest N runs have searched N
\* different regions
RotationState ==
    /\ rg_file \in 0..(Len(Rotation(rg_config)) - 1)
    /\ Len(rg_searched) = Len(Rotation(rg_config)) =>
           \A i, j \in 1..Len(rg_searched) :
               i # j => rg_searched[i].gl # rg_searched[j].gl
    /\ rg_runs >= Len(Rotation(rg_config)) =>
           Len(rg_searched) = Len(Rotation(rg_config))

\* a run moves the persisted index on by one modulo N
RotationStep ==
    rg_runs' # rg_runs => rg_file' = (rg_file + 1) % Len(Rotation(rg_config))

\* C28: the region index persisted between scraping runs always lies in
\* [0, N) for the N regions in rotation and advances by exactly one position
\* modulo N per scraping run, whether or not the search succeeded, so that
\* any N consecutive runs search every region of the rotation exactly once.
C28_RotationVisitsEveryRegion == []RotationState /\ [][RotationStep]_vars

KnownCodes == ~rg_config.use_priority_only \/ AllCodesKnown(rg_config)

\* when use_priority_only is off, or priority_regions names regions of
\* self.regions only, the rotation is as described
C28_KnownCodesRotate ==
    /\ [](KnownCodes => RotationState)
    /\ [][KnownCodes => RotationStep]_vars

\* the default configuration has searched each of its five regions once in
\* five runs, searches that failed included
C28_DefaultRotated ==
    /\ rg_config = RegionsConfig(<<"cn", "hk", "us", "sg", "jp">>, TRUE)
    /\ rg_runs = 7
    /\ Len(rg_searched) = 5
    /\ \E i \in 1..5 : ~rg_searched[i].found

\* with the priority list of config.py the persisted index has left the five
\* regions in rotation
C28_IndexOutOfRotation ==
    /\ rg_config.use_priority_only
    /\ Len(rg_config.priority_regions) = 8
    /\ rg_file >= Len(Rotation(rg_config))

\* with the priority list of config.py the latest five runs have searched a
\* region twice
C28_RegionSearchedTwice ==
    /\ rg_config.use_priority_only
    /\ Len(rg_config.priority_regions) = 8
    /\ Len(rg_searched) = 5
    /\ \E i, j \in 1..5 : i # j /\ rg_searched[i].gl = rg_searched[j].gl

(***************************************************************************)
(* The rate-limit marks of one run (aggregator_cli.py, main)               *)
(***************************************************************************)

\* sorted(set(candidates)) of every run
MarkCandidates == <<"u1", "u2">>

\* what a source answers to the probe and to a fetch
MARK_PROBES ==
    { HttpAnswer(200, -1, <<>>, NoTraffic), ExceptionAnswer(err_timed_out) }
        \cup ThrottleAnswers
MARK_FETCHES == {AnswerBody_a, ExceptionAnswer(err_timed_out)} \cup ThrottleAnswers

\* gh_alive = [u for u in alive_urls if u in gh_set]
gh_alive == SelectSeq(mk_alive, LAMBDA u : u \in mk_gh)

\* what a loop does to rate_state for source u whose request gave no result
\* and the mark reason `mark' ("" for none)
MarkedOrSkipped(u, failed, mark) ==
    IF should_skip_due_to_backoff(rate_state, u, now_ts) THEN rate_state
    ELSE IF failed /\ mark # "" THEN mark_rate_limited(rate_state, u, now_ts, mark)
    ELSE rate_state

InitMarks ==
    /\ IdleRate
    /\ IdleMarks
    /\ IdleNotMarks

\* main() loads rate_limit.json and reads the clock once: now_ts = time.time();
\* gh is the set of sources that the GitHub discovery of this run found
MarksStart(d, gh) ==
    /\ mk_pc \in {"idle", "done"}
    /\ now_ts + d <= MaxClock
    /\ now_ts' = now_ts + d
    /\ mk_before' = [u \in URLS |-> InfoHits(rate_state, u)]
    /\ mk_pc' = "validate"
    /\ mk_idx' = 1
    /\ mk_alive' = <<>>
    /\ mk_gh' = gh
    /\ UNCHANGED <<rate_state, notMarks>>

\* one iteration of the validation loop
MarksValidate(ans) ==
    /\ mk_pc = "validate"
    /\ mk_idx <= Len(MarkCandidates)
    /\ LET u == MarkCandidates[mk_idx]
           out == ProbeOutcome[ans]
       IN  /\ rate_state' = MarkedOrSkipped(u, ~out.ok, out.mark)
           /\ mk_alive' = IF ~should_skip_due_to_backoff(rate_state, u, now_ts) /\ out.ok
                          THEN Append(mk_alive, u) ELSE mk_alive
    /\ mk_idx' = mk_idx + 1
    /\ UNCHANGED <<now_ts, mk_pc, mk_gh, mk_before, notMarks>>

\* one iteration of the "Fetch nodes" loop
MarksFetch(ans) ==
    /\ mk_pc = "fetch"
    /\ mk_idx <= Len(mk_alive)
    /\ LET out == FetchOutcome[ans]
       IN  rate_state' = MarkedOrSkipped(mk_alive[mk_idx], ~out.has_body, out.mark)
    /\ mk_idx' = mk_idx + 1
    /\ UNCHANGED <<now_ts, mk_pc, mk_alive, mk_gh, mk_before, notMarks>>

\* one iteration of the loop of the GitHub-only node output
MarksGithub(ans) ==
    /\ mk_pc = "github"
    /\ mk_idx <= Len(gh_alive)
    /\ LET out == FetchOutcome[ans]
       IN  rate_state' = MarkedOrSkipped(gh_alive[mk_idx], ~out.has_body, out.mark)
    /\ mk_idx' = mk_idx + 1
    /\ UNCHANGED <<now_ts, mk_pc, mk_alive, mk_gh, mk_before, notMarks>>

\* main() goes from a finished loop to the next one; the loops after the
\* GitHub-only output never call mark_rate_limited
MarksNextLoop ==
    /\ \/ mk_pc = "validate" /\ mk_idx > Len(MarkCandidates) /\ mk_pc' = "fetch"
       \/ mk_pc = "fetch" /\ mk_idx > Len(mk_alive) /\ mk_pc' = "github"
       \/ mk_pc = "github" /\ mk_idx > Len(gh_alive) /\ mk_pc' = "done"
    /\ mk_idx' = 1
    /\ UNCHANGED <<rate_state, now_ts, mk_alive, mk_gh, mk_before, notMarks>>

NextMarks ==
    \/ \E d \in TickSteps, gh \in SUBSET URLS : MarksStart(d, gh)
    \/ \E ans \in MARK_PROBES : MarksValidate(ans)
    \/ \E ans \in MARK_FETCHES : MarksFetch(ans)
    \/ \E ans \in MARK_FETCHES : MarksGithub(ans)
    \/ MarksNextLoop

SpecMarks == InitMarks /\ [][NextMarks]_vars

\* C29: within one run the failure count of every URL grows by at most 1,
\* whichever of the validation, node fetch and GitHub-only loops request it; a
\* mark of the run is the only one and puts the URL's wait one backoff step
\* after the clock of the run.
C29_AtMostOneMarkPerRun ==
    \A u \in URLS :
        /\ InfoHits(rate_state, u) <= mk_before[u] + 1
        /\ InfoHits(rate_state, u) = mk_before[u] + 1 =>
               /\ rate_state[u].last_at = now_ts
               /\ rate_state[u].next_allowed_at =
                      now_ts + 60 * Min(15 * Pow2(mk_before[u]), 24 * 60)

\* a source found on GitHub passed validation, was marked by the node fetch
\* loop and then came up in the GitHub-only loop, in a run that found it
\* marked before
C29_MarkedSourceCameUpAgain ==
    /\ mk_pc = "done"
    /\ \E i \in 1..Len(gh_alive) :
           /\ mk_before[gh_alive[i]] >= 1
           /\ InfoHits(rate_state, gh_alive[i]) = mk_before[gh_alive[i]] + 1

\* position of a source in the sorted source list
SourceIndex(u) == CHOOSE i \in 1..Len(URL_ORDER) : URL_ORDER[i] = u

\* the list names its sources in the order of the sorted source list
InSourceOrder(urls) ==
    \A i, j \in 1..Len(urls) : i < j => SourceIndex(urls[i]) < SourceIndex(urls[j])

\* after is before with some entries left out
RECURSIVE IsSubsequence(_, _)
IsSubsequence(after, before) ==
    IF after = <<>> THEN TRUE
    ELSE IF before = <<>> THEN FALSE
    ELSE IF Head(after) = Head(before)
         THEN IsSubsequence(Tail(after), Tail(before))
         ELSE IsSubsequence(after, Tail(before))

\* the nodes that a loop step added at the end of the list
AddedNodes(before, after) == SubSeq(after, Len(before) + 1, Len(after))

\* C23: the published node list is in source-list order: the sources are
\* requested in the order of the sorted source list, the nodes of a source
\* are put behind the nodes of every source requested before it, and the
\* dedup and the cap leave out nodes without moving one; the list is then
\* published as it is.
C23_NodesInSourceOrder ==
    /\ [](/\ InSourceOrder(candidates)
          /\ InSourceOrder(alive_urls)
          /\ InSourceOrder(refined_alive_urls))
    /\ [][(run_pc = "verified" /\ run_idx <= Len(refined_alive_urls)) =>
              /\ run_idx' = run_idx + 1
              /\ (last_req'.kind = "fetch" =>
                      last_req'.url = refined_alive_urls[run_idx])
              /\ Len(verified_nodes') >= Len(verified_nodes)
              /\ SubSeq(verified_nodes', 1, Len(verified_nodes)) = verified_nodes
              /\ \E ans \in FetchAnswers(refined_alive_urls[run_idx]) :
                     AddedNodes(verified_nodes, verified_nodes')
                         \in {<<>>, FetchOutcome[ans].nodes}]_vars
    /\ [][(run_pc = "verified" /\ run_pc' = "good") =>
              /\ IsSubsequence(verified_nodes', verified_nodes)
              /\ (args.dedup => FirstSeenWins(verified_nodes, verified_nodes'))]_vars
    /\ [][(run_pc \in {"good", "publish"}) => verified_nodes' = verified_nodes]_vars

\* without --dedup and --max, two sources were fetched, the first served
\* body b and the second body a, and the published list is the nodes of b
\* followed by the nodes of a
C23_EarlierSourceFirst ==
    /\ Published
    /\ Len(refined_alive_urls) = 2
    /\ args = [dedup |-> FALSE, max |-> 0]
    /\ verified_nodes = FetchOutcome[AnswerBody_b].nodes \o FetchOutcome[AnswerBody_a].nodes

(***************************************************************************)
(* Key store of the key manager API (key_manager_api.py)                   *)
(***************************************************************************)

\* bounds
MaxRequests == 3

\* the threads of the server and the keys that requests name
StoreThreads == {"t1", "t2"}
StoreKeys == {"k1", "k2"}

NoStoreRequest == [op |-> "none", key |-> "", pc |-> "idle", keys |-> {}, dates |-> {}]

InitStore ==
    /\ ks_keys_file \in SUBSET StoreKeys
    /\ ks_dates_file = ks_keys_file
    /\ ks_req = [t \in StoreThreads |-> NoStoreRequest]
    /\ ks_last = [k \in StoreKeys |-> "none"]
    /\ ks_overlap = FALSE
    /\ ks_begun = 0
    /\ IdleNotStore

InFlight(t) == ks_req[t].pc # "idle"

\* a thread of the server takes a POST /api/add-key or DELETE /api/delete-key
AcceptRequest(t, op, k) ==
    /\ ~InFlight(t)
    /\ ks_begun < MaxRequests
    /\ ks_req' = [ks_req EXCEPT ![t] = [NoStoreRequest EXCEPT !.op = op, !.key = k,
                                                         !.pc = "load_keys"]]
    /\ ks_overlap' = (ks_overlap \/ \E o \in StoreThreads \ {t} : InFlight(o))
    /\ ks_begun' = ks_begun + 1
    /\ UNCHANGED <<ks_keys_file, ks_dates_file, ks_last, notStore>>

\* keys = load_keys() and the check of the request against it: add_key answers
\* 400 for a key that is listed, delete_key 404 for one that is not; otherwise
\* the handler changes its own list
LoadKeys(t) ==
    /\ ks_req[t].pc = "load_keys"
    /\ LET r == ks_req[t]
           refused == IF r.op = "add" THEN r.key \in ks_keys_file
                      ELSE r.key \notin ks_keys_file
       IN  ks_req' = [ks_req EXCEPT ![t] =
               IF refused THEN NoStoreRequest
               ELSE [r EXCEPT !.pc = "load_dates",
                              !.keys = IF r.op = "add" THEN ks_keys_file \cup {r.key}
                                       ELSE ks_keys_file \ {r.key}]]
    /\ UNCHANGED <<ks_keys_file, ks_dates_file, ks_last, ks_overlap, ks_begun, notStore>>

\* registration_dates = load_registration_dates() and the change of the
\* handler's own dict
LoadDates(t) ==
    /\ ks_req[t].pc = "load_dates"
    /\ LET r == ks_req[t]
       IN  ks_req' = [ks_req EXCEPT ![t] =
               [r EXCEPT !.pc = "save_keys",
                         !.dates = IF r.op = "add" THEN ks_dates_file \cup {r.key}
                                   ELSE ks_dates_file \ {r.key}]]
    /\ UNCHANGED <<ks_keys_file, ks_dates_file, ks_last, ks_overlap, ks_begun, notStore>>

\* save_keys(keys)
SaveKeys(t) ==
    /\ ks_req[t].pc = "save_keys"
    /\ ks_keys_file' = ks_req[t].keys
    /\ ks_req' = [ks_req EXCEPT ![t].pc = "save_dates"]
    /\ UNCHANGED <<ks_dates_file, ks_last, ks_overlap, ks_begun, notStore>>

\* save_registration_dates(registration_dates) and the answer "success"
SaveDates(t) ==
    /\ ks_req[t].pc = "save_dates"
    /\ ks_dates_file' = ks_req[t].dates
    /\ ks_last' = [ks_last EXCEPT ![ks_req[t].key] =
                       IF ks_req[t].op = "add" THEN "added" ELSE "deleted"]
    /\ ks_req' = [ks_req EXCEPT ![t] = NoStoreRequest]
    /\ UNCHANGED <<ks_keys_file, ks_overlap, ks_begun, notStore>>

NextStore ==
    \/ \E t \in StoreThreads, op \in {"add", "delete"}, k \in StoreKeys :
           AcceptRequest(t, op, k)
    \/ \E t \in StoreThreads : LoadKeys(t)
    \/ \E t \in StoreThreads : LoadDates(t)
    \/ \E t \in StoreThreads : SaveKeys(t)
    \/ \E t \in StoreThreads : SaveDates(t)

SpecStore == InitStore /\ [][NextStore]_vars

\* no request is being handled
StoreAtRest == \A t \in StoreThreads : ~InFlight(t)

\* both files show, for every key, what the latest request on it that was
\* answered with success did
StoreReflectsUpdates ==
    \A k \in StoreKeys :
        /\ ks_last[k] = "added" => (k \in ks_keys_file /\ k \in ks_dates_file)
        /\ ks_last[k] = "deleted" => (k \notin ks_keys_file /\ k \notin ks_dates_file)

\* C22: updates of the key store have one writer at a time per key: when
\* requests that ran concurrently have all been answered, the store reflects
\* every one of them, and no writer's change to its own key is lost or
\* overwritten by another writer.
C22_ConcurrentUpdatesAllKept == StoreAtRest => StoreReflectsUpdates

\* requests that are handled one after the other are all kept
C22_SequentialUpdatesKept == (StoreAtRest /\ ~ks_overlap) => StoreReflectsUpdates

\* two add-key requests for different keys were both answered with success
\* and the keys file lists only one of the keys
C22_AddedKeyLost ==
    /\ StoreAtRest
    /\ ks_last = [k \in StoreKeys |-> "added"]
    /\ ks_keys_file = {"k2"}
    /\ ks_begun = 2

(***************************************************************************)
(* New-source notification (subscription_checker.py)                       *)
(***************************************************************************)

\* bounds
MaxNotifyOps == 2

\* the normalized subscription URLs, and the spellings of a URL that
\* normalize_url maps to it: as found, in upper case, with &flag=clash
NotifyUrls == {"s1", "s2"}
Spellings == {"plain", "upper", "clash_flag"}
RawNotifyUrls == [norm : NotifyUrls, spelling : Spellings]

\* self.normalize_url(clean_url) on these spellings
normalize_url(raw) == raw.norm

\* which of the three messages the webhook accepted (status 200, errcode 0);
\* a message that was not accepted, or not posted after an exception, did
\* not reach the chat
Deliveries == [1..3 -> BOOLEAN]

InitNotify ==
    /\ notified_urls = {}
    /\ nt_delivered = [u \in NotifyUrls |-> <<0, 0, 0>>]
    /\ nt_ops = 0
    /\ IdleNotAlert

\* send_dingtalk_notification(result) from the state st = [notified,
\* delivered]: nothing is posted for a recorded URL or an unavailable source;
\* otherwise the three messages are posted, and the URL is recorded when all
\* three were accepted
send_dingtalk_notification(st, raw, available, d) ==
    LET u == normalize_url(raw)
    IN  IF u \in st.notified \/ ~available THEN st
        ELSE [notified |-> IF d[1] /\ d[2] /\ d[3] THEN st.notified \cup {u}
                           ELSE st.notified,
              delivered |-> [st.delivered EXCEPT ![u] =
                                [i \in 1..3 |-> @[i] + (IF d[i] THEN 1 ELSE 0)]]]

NotifyState == [notified |-> notified_urls, delivered |-> nt_delivered]

NotifyDone(st) ==
    /\ notified_urls' = st.notified
    /\ nt_delivered' = st.delivered
    /\ nt_ops' = nt_ops + 1
    /\ UNCHANGED notAlert

\* check_subscription_url(url): a source found available is notified
CheckSubscriptionUrl(raw, available, d) ==
    /\ nt_ops < MaxNotifyOps
    /\ NotifyDone(send_dingtalk_notification(NotifyState, raw, available, d))

\* one URL of check_multiple_subscriptions: check_subscription_url, and for
\* an available source send_dingtalk_notification once more
CheckMultiple(raw, available, d, e) ==
    /\ nt_ops < MaxNotifyOps
    /\ NotifyDone(send_dingtalk_notification(
                      send_dingtalk_notification(NotifyState, raw, available, d),
                      raw, available, e))

NextNotify ==
    \/ \E raw \in RawNotifyUrls, available \in BOOLEAN, d \in Deliveries :
           CheckSubscriptionUrl(raw, available, d)
    \/ \E raw \in RawNotifyUrls, available \in BOOLEAN, d, e \in Deliveries :
           CheckMultiple(raw, available, d, e)

SpecNotify == InitNotify /\ [][NextNotify]_vars

\* C26: over any sequence of check and notify operations no message of the
\* new-source notification reaches the chat more than once for the same
\* normalized URL, batch checks and attempts that delivered only some of the
\* messages included.
C26_NoMessageDeliveredTwice ==
    \A u \in NotifyUrls : \A i \in 1..3 : nt_delivered[u][i] <= 1

\* a URL is recorded only after its three messages were all accepted, and
\* nothing is posted for a recorded URL
C26_RecordedUrlNotPostedAgain ==
    /\ [](\A u \in notified_urls : \A i \in 1..3 : nt_delivered[u][i] >= 1)
    /\ [][\A u \in notified_urls : nt_delivered'[u] = nt_delivered[u]]_vars

\* one batch check posted the notification of a source twice: the first
\* attempt delivered the link card only, the second all three messages
C26_LinkCardDeliveredTwice ==
    /\ nt_ops = 1
    /\ nt_delivered["s1"] = <<2, 1, 1>>
    /\ "s1" \in notified_urls

(***************************************************************************)
(* Dual analysis of a subscription (subscription_checker.py)               *)
(***************************************************************************)

\* bounds
MaxAnalyses == 2

\* a text by its length and its first 100 characters; None and ""
Content(len, head) == [len |-> len, head |-> head]
NoContent == Content(-1, "")
EmptyContent == Content(0, "")
Truthy(c) == c.len > 0

\* the texts that the two variants of a source are made of
ContentSamples ==
    { Content(400, "A"), Content(450, "A"), Content(600, "A"), Content(400, "B"),
      EmptyContent }

\* total_nodes that an analysis finds
NodeCounts == {0, 3}

\* the request of the raw variant: 200 with a body that _try_base64_decode
\* decodes, 200 with another body, another status, an exception
RawAnswers ==
    [kind : {"base64", "plain"}, content : ContentSamples, nodes : NodeCounts]
        \cup [kind : {"http_error", "exception"}, content : {NoContent},
              nodes : NodeCounts]

\* the request with flag=clash: 200 with Clash YAML, 200 with another body,
\* another status, an exception
ClashAnswers ==
    [kind : {"yaml"}, content : ContentSamples \ {EmptyContent}, nodes : NodeCounts]
        \cup [kind : {"not_yaml"}, content : ContentSamples, nodes : {0}]
        \cup [kind : {"http_error", "exception"}, content : {NoContent}, nodes : {0}]

\* what a conversion service answers: Clash YAML with nodes, Clash YAML
\* without, another body, another status, an exception
ConverterAnswers == {"nodes", "no_nodes", "not_yaml", "http_error", "exception"}

\* converter_services
converter_services == 3

\* mutant: the comparison looks at the lengths only
content_identical_LengthOnly(clash_content, original_decoded_content) ==
    /\ Truthy(clash_content) /\ Truthy(original_decoded_content)
    /\ clash_content.len - original_decoded_content.len < 100
    /\ original_decoded_content.len - clash_content.len < 100

\* content_identical: false unless both texts are there, their lengths
\* differ by less than 100 and their first 100 characters are equal
content_identical(clash_content, original_decoded_content) ==
    /\ Truthy(clash_content) /\ Truthy(original_decoded_content)
    /\ clash_content.len - original_decoded_content.len < 100
    /\ original_decoded_content.len - clash_content.len < 100
    /\ clash_content.head = original_decoded_content.head

\* step 5: the best of the two local results
BestLocalResult(clash_result, base64_nodes) ==
    IF ~clash_result.empty /\ clash_result.nodes > 0
    THEN [method |-> "clash_flag", nodes |-> clash_result.nodes]
    ELSE IF base64_nodes > 0
    THEN [method |-> "base64_decode", nodes |-> base64_nodes]
    ELSE IF ~clash_result.empty
    THEN [method |-> "clash_flag_fallback", nodes |-> clash_result.nodes]
    ELSE [method |-> "base64_fallback", nodes |-> base64_nodes]

InitDual == IdleDual /\ IdleNotDual

\* _dual_analyze_subscription is called for a source
StartAnalysis ==
    /\ da_pc \in {"idle", "returned"}
    /\ da_runs < MaxAnalyses
    /\ da_pc' = "raw"
    /\ da_raw' = NoContent
    /\ da_base64' = 0
    /\ da_clash' = NoContent
    /\ da_clash_result' = [empty |-> TRUE, nodes |-> 0]
    /\ da_tried' = 0
    /\ da_result' = [method |-> "", nodes |-> 0]
    /\ da_runs' = da_runs + 1
    /\ UNCHANGED notDual

\* step 1: the raw variant is requested again and analysed; after another
\* status original_decoded_content stays None, after an exception it is ""
AnalyzeRaw(ans) ==
    /\ da_pc = "raw"
    /\ da_raw' = IF ans.kind = "exception" THEN EmptyContent ELSE ans.content
    /\ da_base64' = ans.nodes
    /\ da_pc' = "clash"
    /\ UNCHANGED <<da_clash, da_clash_result, da_tried, da_result, da_runs, notDual>>

\* steps 2 to 4: _analyze_with_clash_flag_and_content, the comparison, and
\* the choice between the conversion services and the local results
AnalyzeClash(ans) ==
    /\ da_pc = "clash"
    /\ da_clash' = ans.content
    /\ da_clash_result' = [empty |-> ans.kind # "yaml", nodes |-> ans.nodes]
    /\ IF ~content_identical(ans.content, da_raw) /\ Truthy(ans.content)
       THEN da_pc' = "convert" /\ UNCHANGED da_result
       ELSE /\ da_pc' = "returned"
            /\ da_result' = BestLocalResult([empty |-> ans.kind # "yaml",
                                             nodes |-> ans.nodes], da_base64)
    /\ UNCHANGED <<da_raw, da_base64, da_tried, da_runs, notDual>>

\* _convert_subscription_with_service: the next service is requested; its
\* nodes are the result, and after the last service step 5 chooses
ConvertWithService(ans) ==
    /\ da_pc = "convert"
    /\ da_tried < converter_services
    /\ da_tried' = da_tried + 1
    /\ IF ans = "nodes"
       THEN /\ da_pc' = "returned"
            /\ da_result' = [method |-> "subscription_converter", nodes |-> 3]
       ELSE IF da_tried + 1 = converter_services
       THEN /\ da_pc' = "returned"
            /\ da_result' = BestLocalResult(da_clash_result, da_base64)
       ELSE UNCHANGED <<da_pc, da_result>>
    /\ UNCHANGED <<da_raw, da_base64, da_clash, da_clash_result, da_runs, notDual>>

NextDual ==
    \/ StartAnalysis
    \/ \E ans \in RawAnswers : AnalyzeRaw(ans)
    \/ \E ans \in ClashAnswers : AnalyzeClash(ans)
    \/ \E ans \in ConverterAnswers : ConvertWithService(ans)

SpecDual == InitDual /\ [][NextDual]_vars

\* both variants were obtained and they differ: in their first 100
\* characters, or by 100 characters or more in length
VariantsDiverge ==
    /\ da_raw.len > 0 /\ da_clash.len > 0
    /\ \/ da_raw.head # da_clash.head
       \/ da_raw.len - da_clash.len >= 100
       \/ da_clash.len - da_raw.len >= 100

\* C21: when the raw variant and the structured variant of a source diverge,
\* no result is returned before the conversion fallback was attempted; a
\* local result, an empty node list included, is returned only after every
\* conversion service was requested, and the result names the path it came
\* from.
C21_FallbackAttemptedOnDivergence ==
    (da_pc = "returned" /\ VariantsDiverge) =>
        /\ da_tried >= 1
        /\ da_result.method # "subscription_converter" => da_tried = converter_services
        /\ da_result.nodes = 0 => da_tried = converter_services
        /\ da_result.method \in {"subscription_converter", "clash_flag", "base64_decode",
                                 "clash_flag_fallback", "base64_fallback"}

\* the variants diverged, the three conversion services gave no node, and
\* the analysis returned the nodes of the raw variant
C21_LocalResultAfterFallback ==
    /\ da_pc = "returned"
    /\ VariantsDiverge
    /\ da_tried = converter_services
    /\ da_result = [method |-> "base64_decode", nodes |-> 3]

(***************************************************************************)
(* URL normaliser (aggregator_cli.py normalize_subscribe_url).  A URL is a *)
(* sequence of characters; reg_sign is the character U+00AE, zh_x a CJK    *)
(* character.  <<>> stands for None.                                       *)
(***************************************************************************)

None == <<>>

DIGITS == {"0", "1", "2", "3", "4", "5", "6", "7", "8", "9"}
LETTERS == SeqRange(UPPER) \cup SeqRange(LOWER)

\* safe_chars
SAFE_CHARS ==
    LETTERS \cup DIGITS \cup
    {"-", ".", "_", "~", ":", "/", "?", "#", "[", "]", "@", "!", "$", "&",
     "'", "(", ")", "*", "+", ",", ";", "=", "%"}

\* position of the first c in s, 0 when there is none (str.find + 1)
Find(s, c) ==
    IF \E i \in 1..Len(s) : s[i] = c
    THEN CHOOSE i \in 1..Len(s) : s[i] = c /\ \A k \in 1..(i - 1) : s[k] # c
    ELSE 0

\* position of the last c in s, 0 when there is none (str.rfind + 1)
RFind(s, c) ==
    IF \E i \in 1..Len(s) : s[i] = c
    THEN CHOOSE i \in 1..Len(s) : s[i] = c /\ \A k \in (i + 1)..Len(s) : s[k] # c
    ELSE 0

From(s, i) == SubSeq(s, i, Len(s))

\* html.entities.html5 restricted to the names the modelled inputs can spell

html5 ==
    (<<"a", "m", "p", ";">> :> <<"&">>)
    @@ (<<"a", "m", "p">> :> <<"&">>)
    @@ (<<"l", "t", ";">> :> <<"<">>)
    @@ (<<"l", "t">> :> <<"<">>)
    @@ (<<"r", "e", "g", ";">> :> <<"reg_sign">>)
    @@ (<<"r", "e", "g">> :> <<"reg_sign">>)


\* the characters that end the name of a character reference
CHARREF_STOP == {" ", "<", "&", "#", ";"}

\* the longest prefix of s, of at most n characters, without a stop character
NameRun(s, n) ==
    LET ends == {i \in 0..Len(s) :
                    /\ i <= n
                    /\ \A k \in 1..i : s[k] \notin CHARREF_STOP}
    IN  SubSeq(s, 1, CHOOSE i \in ends : \A j \in ends : j <= i)

\* html._replace_charref for a named reference
replace_charref(name) ==
    IF name \in DOMAIN html5 THEN html5[name]
    ELSE LET hits == {x \in 2..(Len(name) - 1) : SubSeq(name, 1, x) \in DOMAIN html5}
         IN  IF hits = {} THEN <<"&">> \o name
             ELSE LET x == CHOOSE x \in hits : \A y \in hits : y <= x
                  IN  html5[SubSeq(name, 1, x)] \o From(name, x + 1)

\* the replacement of one match of the charref pattern: f is the text from
\* after an "&" up to the next "&"
Unescaped(f) ==
    LET run == NameRun(f, 32)
        name == IF Len(f) > Len(run) /\ f[Len(run) + 1] = ";"
                THEN Append(run, ";") ELSE run
    IN  IF run = <<>> THEN <<"&">> \o f
        ELSE replace_charref(name) \o From(f, Len(name) + 1)

\* str.split(sep) of a text
RECURSIVE Split(_, _)
Split(s, sep) ==
    IF Find(s, sep) = 0 THEN <<s>>
    ELSE <<SubSeq(s, 1, Find(s, sep) - 1)>> \o Split(From(s, Find(s, sep) + 1), sep)

RECURSIVE Concat(_)
Concat(parts) ==
    IF parts = <<>> THEN <<>> ELSE Head(parts) \o Concat(Tail(parts))

\* html.unescape; the modelled inputs hold no numeric reference.  The name of
\* a reference holds no "&", so every "&" starts its own match
html_unescape(s) ==
    LET fields == Split(s, "&")
    IN  Head(fields) \o Concat([i \in 1..(Len(fields) - 1) |-> Unescaped(fields[i + 1])])

\* the loop that keeps the leading safe characters
TrimUnsafe(s) ==
    LET unsafe == {i \in 1..Len(s) : s[i] \notin SAFE_CHARS}
    IN  IF unsafe = {} THEN s
        ELSE SubSeq(s, 1, (CHOOSE i \in unsafe : \A j \in unsafe : i <= j) - 1)

\* urllib.parse.urlsplit: scheme
SCHEME_CHARS == LETTERS \cup DIGITS \cup {"+", "-", "."}

HasScheme(url) ==
    LET i == Find(url, ":")
    IN  /\ i > 1
        /\ url[1] \in LETTERS
        /\ \A k \in 1..(i - 1) : url[k] \in SCHEME_CHARS

\* position of the first of "/?#" at or after position from, Len + 1 if none
NetlocEnd(url, from) ==
    LET ends == {i \in from..Len(url) : url[i] \in {"/", "?", "#"}}
    IN  IF ends = {} THEN Len(url) + 1
        ELSE CHOOSE i \in ends : \A j \in ends : i <= j

\* urllib.parse._splitparams for the schemes that use params: a ';' of the
\* last path segment starts the params
SemiPos(url) ==
    IF RFind(url, "/") > 0
    THEN (IF Find(From(url, RFind(url, "/")), ";") > 0
          THEN RFind(url, "/") - 1 + Find(From(url, RFind(url, "/")), ";")
          ELSE 0)
    ELSE Find(url, ";")

USES_PARAMS == {<<>>, <<"h", "t", "t", "p">>, <<"h", "t", "t", "p", "s">>}

\* urlparse after urlsplit: (scheme, netloc, path, params, query, fragment)
splitparams(scheme, netloc, url, query, fragment) ==
    IF scheme \in USES_PARAMS /\ SemiPos(url) > 0
    THEN [scheme |-> scheme, netloc |-> netloc,
          path |-> SubSeq(url, 1, SemiPos(url) - 1),
          params |-> From(url, SemiPos(url) + 1),
          query |-> query, fragment |-> fragment]
    ELSE [scheme |-> scheme, netloc |-> netloc, path |-> url, params |-> <<>>,
          query |-> query, fragment |-> fragment]

\* urlsplit: if '?' in url: url, query = url.split('?', 1)
splitquery(scheme, netloc, url, fragment) ==
    IF Find(url, "?") > 0
    THEN splitparams(scheme, netloc, SubSeq(url, 1, Find(url, "?") - 1),
                     From(url, Find(url, "?") + 1), fragment)
    ELSE splitparams(scheme, netloc, url, <<>>, fragment)

\* urlsplit: if '#' in url: url, fragment = url.split('#', 1)
splitfragment(scheme, netloc, url) ==
    IF Find(url, "#") > 0
    THEN splitquery(scheme, netloc, SubSeq(url, 1, Find(url, "#") - 1),
                    From(url, Find(url, "#") + 1))
    ELSE splitquery(scheme, netloc, url, <<>>)

\* urlsplit: if url[:2] == '//': netloc, url = _splitnetloc(url, 2)
splitnetloc(scheme, url) ==
    IF Len(url) >= 2 /\ url[1] = "/" /\ url[2] = "/"
    THEN splitfragment(scheme, SubSeq(url, 3, NetlocEnd(url, 3) - 1),
                       From(url, NetlocEnd(url, 3)))
    ELSE splitfragment(scheme, <<>>, url)

\* urllib.parse.urlparse on a text without brackets
urlparse(url) ==
    IF HasScheme(url)
    THEN splitnetloc(Lower(SubSeq(url, 1, Find(url, ":") - 1)),
                     From(url, Find(url, ":") + 1))
    ELSE splitnetloc(<<>>, url)

\* the escapes urllib.parse.unquote decodes, restricted to those the
\* modelled inputs can spell
HEX_PAIRS == (<<"4", "1">> :> "A") @@ (<<"7", "4">> :> "t")

\* unquote(s.replace('+', ' '))
RECURSIVE unquote_plus(_)
unquote_plus(s) ==
    IF s = <<>> THEN <<>>
    ELSE IF Head(s) = "+" THEN <<" ">> \o unquote_plus(Tail(s))
    ELSE IF Head(s) = "%" /\ Len(s) >= 3 /\ SubSeq(s, 2, 3) \in DOMAIN HEX_PAIRS
    THEN <<HEX_PAIRS[SubSeq(s, 2, 3)]>> \o unquote_plus(From(s, 4))
    ELSE <<Head(s)>> \o unquote_plus(Tail(s))

\* urllib.parse.parse_qsl(query, keep_blank_values=False): the (name, value)
\* pairs in order
parse_qsl(query) ==
    LET fields == Split(query, "&")
        ok(f) == Find(f, "=") > 0 /\ Find(f, "=") < Len(f)
        kept == SelectSeq(fields, ok)
    IN  [i \in 1..Len(kept) |->
            [name |-> unquote_plus(SubSeq(kept[i], 1, Find(kept[i], "=") - 1)),
             value |-> unquote_plus(From(kept[i], Find(kept[i], "=") + 1))]]

\* parse_qs(...).get(name, []): the values of name in order
QsGet(pairs, name) ==
    LET hits == SelectSeq(pairs, LAMBDA p : p.name = name)
    IN  [i \in 1..Len(hits) |-> hits[i].value]

\* re.fullmatch(r"[A-Za-z0-9]+", s)
IsAlnum(s) == s # <<>> /\ \A i \in 1..Len(s) : s[i] \in LETTERS \cup DIGITS

\* "api/v1/client/subscribe"
MARKER ==
    <<"a", "p", "i", "/", "v", "1", "/", "c", "l", "i", "e", "n", "t", "/",
    "s", "u", "b", "s", "c", "r", "i", "b", "e">>

\* "xxxx"
PLACEHOLDER ==
    <<"x", "x", "x", "x">>

\* "your-provider.com"
PLACEHOLDER_HOST ==
    <<"y", "o", "u", "r", "-", "p", "r", "o", "v", "i", "d", "e", "r", ".",
    "c", "o", "m">>

\* "token"
KEY_TOKEN ==
    <<"t", "o", "k", "e", "n">>

\* "flag"
KEY_FLAG ==
    <<"f", "l", "a", "g">>


\* urlencode(out_qs) for alphanumeric values
urlencode(token, flag) ==
    KEY_TOKEN \o <<"=">> \o token
    \o (IF flag = <<>> THEN <<>> ELSE <<"&">> \o KEY_FLAG \o <<"=">> \o flag)

\* urlunparse((scheme, netloc, path, "", query, "")) with scheme, netloc and
\* query present
urlunparse(scheme, netloc, path, query) ==
    LET url == IF path # <<>> /\ path[1] # "/" THEN <<"/">> \o path ELSE path
    IN  scheme \o <<":", "/", "/">> \o netloc \o url \o <<"?">> \o query

\* lines 762-775: the token and flag checks and the rebuilt URL
Rebuilt(pu, token_list, flag_list) ==
    IF token_list = <<>> THEN None
    ELSE IF ~IsAlnum(token_list[1]) THEN None
    ELSE IF Lower(token_list[1]) = PLACEHOLDER THEN None
    ELSE urlunparse(pu.scheme, pu.netloc, pu.path,
                    urlencode(token_list[1],
                              IF flag_list # <<>> /\ IsAlnum(flag_list[1])
                              THEN flag_list[1] ELSE <<>>))

\* line 761: qs = parse_qs(pu.query, keep_blank_values=False)
WithQuery(pu, qs) == Rebuilt(pu, QsGet(qs, KEY_TOKEN), QsGet(qs, KEY_FLAG))

\* lines 753-760: the checks on scheme, host and path
Parsed(pu) ==
    IF pu.scheme = <<>> \/ pu.netloc = <<>> THEN None
    ELSE IF ~Contains(pu.path, MARKER) THEN None
    ELSE IF Contains(Lower(pu.netloc), PLACEHOLDER)
            \/ Contains(Lower(pu.netloc), PLACEHOLDER_HOST)
    THEN None
    ELSE WithQuery(pu, parse_qsl(pu.query))

normalize_subscribe_url(raw_url) ==
    IF raw_url = <<>> THEN None
    ELSE Parsed(urlparse(TrimUnsafe(html_unescape(Strip(raw_url)))))


(***************************************************************************)
(* URL normaliser: the raw candidates                                      *)
(***************************************************************************)

\* "http://h"
head_plain ==
    <<"h", "t", "t", "p", ":", "/", "/", "h">>

\* "Http://H"
head_mixed ==
    <<"H", "t", "t", "p", ":", "/", "/", "H">>

\* "http://xxxx.io"
head_placeholder ==
    <<"h", "t", "t", "p", ":", "/", "/", "x", "x", "x", "x", ".", "i",
    "o">>

\* "/api/v1/client/subscribe"
path_marker ==
    <<"/", "a", "p", "i", "/", "v", "1", "/", "c", "l", "i", "e", "n", "t",
    "/", "s", "u", "b", "s", "c", "r", "i", "b", "e">>

\* "&amp;region=hk"
suffix_escaped_amp ==
    <<"&", "a", "m", "p", ";", "r", "e", "g", "i", "o", "n", "=", "h",
    "k">>

\* ";p"
suffix_params ==
    <<";", "p">>

\* "token=abc"
param_token ==
    <<"t", "o", "k", "e", "n", "=", "a", "b", "c">>

\* "flag=clash"
param_flag ==
    <<"f", "l", "a", "g", "=", "c", "l", "a", "s", "h">>

\* "a=1"
param_a ==
    <<"a", "=", "1">>

\* "region=us"
param_region ==
    <<"r", "e", "g", "i", "o", "n", "=", "u", "s">>

\* "&"
sep_plain ==
    <<"&">>

\* "&amp;"
sep_escaped ==
    <<"&", "a", "m", "p", ";">>

\* " 10GB"
tail_blank ==
    <<" ", "1", "0", "G", "B">>

\* "剩余"
tail_cjk ==
    <<"zh_sheng", "zh_yu">>

\* ",10GB"
tail_comma ==
    <<",", "1", "0", "G", "B">>


Heads == {head_plain, head_mixed, head_placeholder}
PathSuffixes == {<<>>, suffix_escaped_amp, suffix_params}
Separators == {sep_plain, sep_escaped}
Tails == {<<>>, tail_blank, tail_cjk, tail_comma}

\* the allowed parameters and the others
AllowedParams == {param_token, param_flag}
Params == AllowedParams \cup {param_a, param_region}

\* a query: up to MaxParams different parameters in some order
MaxParams == 3
Queries ==
    {q \in UNION {[1..n -> Params] : n \in 1..MaxParams} :
        \A i, j \in 1..Len(q) : i # j => q[i] # q[j]}

RECURSIVE Join(_, _)
Join(parts, sep) ==
    IF parts = <<>> THEN <<>>
    ELSE IF Len(parts) = 1 THEN parts[1]
    ELSE parts[1] \o sep \o Join(Tail(parts), sep)

\* the raw candidate made of the given parts
RawUrl(head, suffix, q, sep, tail) ==
    head \o path_marker \o suffix
    \o (IF q = <<>> THEN <<>> ELSE <<"?">> \o Join(q, sep)) \o tail

\* the same candidate without its disallowed parameters and without the text
\* appended after the URL
CoreUrl(head, suffix, q, sep) ==
    RawUrl(head, suffix, SelectSeq(q, LAMBDA p : p \in AllowedParams), sep, <<>>)

InitNorm ==
    /\ \E head \in Heads, suffix \in PathSuffixes, q \in Queries,
          sep \in Separators, tail \in Tails :
           /\ nz_raw = RawUrl(head, suffix, q, sep, tail)
           /\ nz_core = CoreUrl(head, suffix, q, sep)
           /\ nz_parts = [suffix |-> suffix, query |-> q, sep |-> sep, tail |-> tail]
    /\ nz_done = {}
    /\ nz_out = None
    /\ nz_again = None
    /\ nz_core_out = None
    /\ IdleNotNorm

\* candidates = [normalize_subscribe_url(u) for u in raw_candidates]
Normalize ==
    /\ "raw" \notin nz_done
    /\ nz_out' = normalize_subscribe_url(nz_raw)
    /\ nz_done' = nz_done \cup {"raw"}
    /\ UNCHANGED <<nz_raw, nz_core, nz_parts, nz_again, nz_core_out, notNorm>>

\* a normalised URL read back from history_urls.json is normalised again
Renormalize ==
    /\ "raw" \in nz_done
    /\ "again" \notin nz_done
    /\ nz_out # None
    /\ nz_again' = normalize_subscribe_url(nz_out)
    /\ nz_done' = nz_done \cup {"again"}
    /\ UNCHANGED <<nz_raw, nz_core, nz_parts, nz_out, nz_core_out, notNorm>>

\* the candidate without disallowed parameters and trailing text is normalised
NormalizeCore ==
    /\ "core" \notin nz_done
    /\ nz_core_out' = normalize_subscribe_url(nz_core)
    /\ nz_done' = nz_done \cup {"core"}
    /\ UNCHANGED <<nz_raw, nz_core, nz_parts, nz_out, nz_again, notNorm>>

NextNorm ==
    \/ Normalize
    \/ Renormalize
    \/ NormalizeCore

SpecNorm == InitNorm /\ [][NextNorm]_vars


\* --- specification: the history file over successive runs ---

\* bounds
MaxHistoryRuns == 3

\* what the seed file, the discovery files and the scraper results hold:
\* "http://h/api/v1/client/subscribe?token=abc",
\* "Http://H/api/v1/client/subscribe?token=abc&flag=clash 10GB",
\* "http://h/api/v1/client/subscribe&amp;region=hk?token=abc",
\* "http://h/api/v1/client/subscribe?flag=clash&amp;token=abc",
\* "Http://H/api/v1/client/subscribe?token=abc,10GB",
\* "http://xxxx.io/api/v1/client/subscribe?token=abc" and
\* " http://h/api/v1/client/subscribe?a=1&token=abc "
DiscoveredRaw ==
    { RawUrl(head_plain, <<>>, <<param_token>>, sep_plain, <<>>),
      RawUrl(head_mixed, <<>>, <<param_token, param_flag>>, sep_plain, tail_blank),
      RawUrl(head_plain, suffix_escaped_amp, <<param_token>>, sep_plain, <<>>),
      RawUrl(head_plain, <<>>, <<param_flag, param_token>>, sep_escaped, <<>>),
      RawUrl(head_mixed, <<>>, <<param_token>>, sep_plain, tail_comma),
      RawUrl(head_placeholder, <<>>, <<param_token>>, sep_plain, <<>>),
      <<" ">> \o RawUrl(head_plain, <<>>, <<param_a, param_token>>, sep_plain, <<>>)
          \o <<" ">> }

\* merge_urls: the stripped texts of its lists, as a set
merge_urls(found, history) == {Strip(u) : u \in found \cup history}

\* candidates = [u for u in (normalize_subscribe_url(u) for u in raw_candidates) if u]
NormalizedCandidates(raw_candidates) ==
    {normalize_subscribe_url(u) : u \in raw_candidates} \ {None, <<>>}

InitHistory ==
    /\ hs_file = {}
    /\ hs_start = {}
    /\ hs_runs = 0
    /\ IdleNotHistory

\* one run of main() up to write_json(history_urls.json): the candidates are
\* the normalised URLs of the files, the history file among them, and
\* sorted(set(candidates)) is written as the new history
HistoryRun(found) ==
    /\ hs_runs < MaxHistoryRuns
    /\ hs_start' = hs_file
    /\ hs_file' = NormalizedCandidates(merge_urls(found, hs_file))
    /\ hs_runs' = hs_runs + 1
    /\ UNCHANGED notHistory

NextHistory == \E found \in SUBSET DiscoveredRaw : HistoryRun(found)

SpecHistory == InitHistory /\ [][NextHistory]_vars

\* C24: the persisted history only grows: every URL that is in the history
\* file at the start of a run is in the history file that the run writes.
C24_HistoryOnlyGrows == hs_start \subseteq hs_file

\* a URL of the history file that normalize_subscribe_url maps to itself is
\* in the history file that the run writes
C24_FixedPointsStay ==
    \A u \in hs_start : normalize_subscribe_url(u) = u => u \in hs_file

\* a run has written a history file without a URL that it found there, and
\* with fewer URLs than it found
C24_HistoryLostUrl ==
    /\ hs_runs = 2
    /\ hs_start \ hs_file # {}
    /\ Cardinality(hs_file) < Cardinality(hs_start)

\* ---------------------------------------------------------------------------
\* C3: for every raw URL string u, when normalize_subscribe_url(u) returns a
\* value v, normalize_subscribe_url(v) returns exactly v.
C3_NormalizeIdempotent ==
    ("again" \in nz_done) => nz_again = nz_out

\* the path of the candidate holds an escaped ampersand
PathHoldsEscapedAmp == nz_parts.suffix = suffix_escaped_amp

\* C3 restricted to the candidates whose path holds no escaped ampersand
C3_IdempotentOnPlainPaths ==
    ("again" \in nz_done /\ ~PathHoldsEscapedAmp) => nz_again = nz_out

\* a candidate was accepted, and its normal form was rejected by the second
\* pass: "&amp;region=hk" in the path became "&region=hk", whose "&reg" the
\* second html.unescape turns into the registered sign
C3_NormalFormRejected ==
    /\ "again" \in nz_done
    /\ nz_out # None
    /\ Contains(nz_out, <<"&", "r", "e", "g", "i", "o", "n">>)
    /\ nz_again = None

\* ---------------------------------------------------------------------------
\* the text appended after the URL is non-URL text: it begins with a character
\* that is not in safe_chars
TailIsNonUrlText ==
    nz_parts.tail = <<>> \/ nz_parts.tail[1] \notin SAFE_CHARS

\* C4: a raw candidate and the same candidate without its disallowed query
\* parameters (any parameter other than token and flag) and without the
\* non-URL text appended after the URL normalise to the same value.
C4_SameCoreSameNormalForm ==
    ({"raw", "core"} \subseteq nz_done /\ TailIsNonUrlText) =>
        nz_out = nz_core_out

\* a disallowed parameter whose name begins like a character reference follows
\* a plain "&": html.unescape reads "&reg" of "&region=us" as the registered sign
ParamReadAsCharref ==
    /\ nz_parts.sep = sep_plain
    /\ \E i \in 2..Len(nz_parts.query) : nz_parts.query[i] = param_region

\* C4 restricted to the candidates where no parameter is read as a character
\* reference
C4_SameNormalFormWithoutCharref ==
    ({"raw", "core"} \subseteq nz_done /\ TailIsNonUrlText /\ ~ParamReadAsCharref) =>
        nz_out = nz_core_out

\* a candidate that differs from its accepted core only by disallowed
\* parameters was rejected
C4_DisallowedParamRejects ==
    /\ {"raw", "core"} \subseteq nz_done
    /\ nz_parts.tail = <<>>
    /\ nz_parts.suffix = <<>>
    /\ nz_core_out # None
    /\ nz_out = None

\* a candidate lost its flag because a disallowed parameter stood before it
C4_DisallowedParamDropsFlag ==
    /\ {"raw", "core"} \subseteq nz_done
    /\ nz_parts.tail = <<>>
    /\ nz_out # None
    /\ nz_core_out # None
    /\ nz_out # nz_core_out

====
